---- MODULE Spec2Model ----
(***************************************************************************)
(* State-machine model of the coordination core of cram-essential:         *)
(*   - the four orchestration strategies (CollaborativeStrategy,           *)
(*     SequentialStrategy, ParallelStrategy, CompetitiveStrategy), one run *)
(*     of execute() per behaviour, specification Spec;                     *)
(*   - MeetingRoom.runMeeting, one meeting per behaviour, specification    *)
(*     SpecMeeting; with role reassignment SpecReassign, with the session  *)
(*     SpecSession, with DecisionTracker SpecDecisions, with providers     *)
(*     registered and unregistered SpecRoster;                             *)
(*   - Orchestrator.execute, specifications SpecRuns and SpecExecute;      *)
(*   - CompanyManager.runProject, specification SpecPipeline;              *)
(*   - the sidebar's requests while sessions start and stop, SpecFrame.    *)
(* An async function runs atomically from one await to the next: every     *)
(* action is the code between two suspension points.  Texts are sequences  *)
(* of word tokens (strings).                                               *)
(***************************************************************************)
EXTENDS Integers, Sequences, FiniteSets, TLC

VARIABLES
    strategy, providerList, config, request,
    pc, round, idx, roles, responses, messages, settled, inflight,
    calls, events, result, error, nextId,
    consumed, completionOrder,
    agenda, mpc, mround, rpos, turnNumber, turns, conversationHistory,
    totalTokens, mcalls, mevents, meetingResult, meetingError,
    registry, assignments, agentTexts,
    decisions, roomDecisions, managerDecisions,
    session, nextSessionId, sessionEvents, stopMark,
    project, ppc, stageIndex, stageResults, accumulatedContext,
    pipelineResult, pipelineError

svars == <<strategy, providerList, config, request,
           pc, round, idx, roles, responses, messages, settled, inflight,
           calls, events, result, error, nextId, consumed, completionOrder>>

\* the variables of a meeting
mrun == <<agenda, mpc, mround, rpos, turnNumber, turns, conversationHistory,
          totalTokens, mcalls, mevents, meetingResult, meetingError,
          registry, assignments, agentTexts,
          decisions, roomDecisions, managerDecisions>>

\* the decisions of the running meeting, and the allDecisions lists of the two
\* DecisionTracker objects: MeetingRoom's and CompanyManager's
trackers == <<decisions, roomDecisions, managerDecisions>>

\* the variables of CompanyManager.runProject
pvars == <<project, ppc, stageIndex, stageResults, accumulatedContext,
           pipelineResult, pipelineError>>

\* the variables of the facade's session
fvars == <<session, nextSessionId, sessionEvents, stopMark>>

\* what a strategy run leaves alone
mvars == <<mrun, fvars, pvars>>

vars == <<svars, mvars>>

----------------------------------------------------------------------------
(* Bounds of the model *)

MaxAgents == 3

\* agents offered to the strategies that call them one at a time
MaxListedAgents == 4

MaxRounds == 2

MaxParticipants == 2

MaxTurns == 4

\* where a counter of doubles stops growing (2^53 in the program): x + 1 = x
MaxCounter == 3

\* sessions started in one behaviour
MaxSessions == 2

\* lines of the text of a turn that decisions are extracted from
MaxLines == 3

----------------------------------------------------------------------------
(* Values *)

Undefined == "undefined"

NoResult == [kind |-> "none"]

NoError == [name |-> "none"]

\* this.session = null
Null == [status |-> "null"]

\* no stopSession has been called during a meeting
\* no project is run: the pipeline's locals do not exist
NoProject == [name |-> "", description |-> <<>>, meetingMaxTurns |-> 0]

PipelineOff ==
    /\ project = NoProject
    /\ ppc = "off"
    /\ stageIndex = 0
    /\ stageResults = <<>>
    /\ accumulatedContext = <<>>
    /\ pipelineResult = NoResult
    /\ pipelineError = NoError

\* both trackers are created empty (allDecisions = []), MeetingRoom.ts:26 and
\* CompanyManager's constructor
NoDecisions ==
    /\ decisions = <<>>
    /\ roomDecisions = <<>>
    /\ managerDecisions = <<>>

NoMark == [marked |-> FALSE]

ProviderNames == <<"claude", "gpt", "gemini", "custom1", "custom2">>

Strategies == {"collaborative", "sequential", "parallel", "competitive"}

Requests == {[prompt |-> "build it", context |-> ""],
             [prompt |-> "build it", context |-> "repo notes"]}

TokenChoices == {[promptTokens |-> 1, completionTokens |-> 2, totalTokens |-> 3],
                 [promptTokens |-> 5, completionTokens |-> 1, totalTokens |-> 7]}

ZeroTokens == [promptTokens |-> 0, completionTokens |-> 0, totalTokens |-> 0]

Digits == <<"0", "1", "2", "3", "4", "5", "6", "7", "8", "9">>

Min(a, b) == IF a < b THEN a ELSE b

\* s[k] of a 0-based JavaScript array: undefined outside the array
At(s, k) == IF k + 1 \in 1..Len(s) THEN s[k + 1] ELSE Undefined

\* String.prototype.toLowerCase on the words the model uses
ToLower(w) ==
    CASE w = "WINNER:" -> "winner:"
      [] w = "Winner:" -> "winner:"
      [] w = "Candidate" -> "candidate"
      [] w = "CANDIDATE" -> "candidate"
      [] w = "LGTM" -> "lgtm"
      [] w = "Looks Good" -> "looks good"
      [] w = "Approved" -> "approved"
      [] w = "DECISION:" -> "decision:"
      [] w = "Decision:" -> "decision:"
      [] w = "Rationale:" -> "rationale:"
      [] w = "Because:" -> "because:"
      [] w = "Alternatives:" -> "alternatives:"
      [] w = "Instead of:" -> "instead of:"
      [] OTHER -> w

----------------------------------------------------------------------------
(* Texts the agents may answer with *)

ReviewTexts == {<<"needs", "work">>, <<"overall", "LGTM">>,
                <<"Looks Good", "to", "me">>, <<"not", "Approved">>}

Verdict(d) == <<"WINNER:", " ", "Candidate", " ", d>>

JudgeTexts ==
    { Verdict("0"), Verdict("1"), Verdict("2"), Verdict("3"), Verdict("4"),
      Verdict("2") \o <<"5">>,
      Verdict("0") \o <<"2">>,
      <<"winner:", "candidate", "2">>,
      <<"Winner:", " ", " ", "CANDIDATE", "1">>,
      <<"scores", ":">> \o Verdict("2") \o <<" ", "because", "9">>,
      Verdict("1") \o <<"then">> \o Verdict("2"),
      <<"I", "pick", "Candidate", " ", "2">>,
      <<"WINNER:", " ", "Candidate">>,
      <<"WINNER:", " ", "Candidate", " ", "two">>,
      <<"WINNER:", "is", "Candidate", " ", "2">>,
      <<"WINNER:", " ", "2">> \o Verdict("1"),
      <<>> }

ReplyTexts(purpose, agent) ==
    CASE purpose = "review" -> ReviewTexts
      [] purpose = "judge" -> JudgeTexts
      [] OTHER -> {<<"answer", "of", agent, "for", purpose>>}

\* What one sendMessages call of `agent` may return: a ProviderResponse or a failure
Outcomes(purpose, agent) ==
    {[ok |-> FALSE, provider |-> agent, content |-> <<>>, tokensUsed |-> ZeroTokens]}
    \cup {[ok |-> TRUE, provider |-> agent, content |-> c, tokensUsed |-> t] :
             c \in ReplyTexts(purpose, agent), t \in TokenChoices}

Response(o) == [provider |-> o.provider, content |-> o.content, tokensUsed |-> o.tokensUsed]

addTokens(a, b) ==
    [promptTokens |-> a.promptTokens + b.promptTokens,
     completionTokens |-> a.completionTokens + b.completionTokens,
     totalTokens |-> a.totalTokens + b.totalTokens]

RECURSIVE sumTokensFrom(_, _, _)
sumTokensFrom(rs, k, acc) ==
    IF k > Len(rs) THEN acc
    ELSE sumTokensFrom(rs, k + 1, addTokens(acc, rs[k].tokensUsed))

\* mutant: the last response pushed (the synthesis or judging call) is left out of the sum
sumTokensSkipLast(rs) ==
    IF Len(rs) <= 1 THEN sumTokensFrom(rs, 1, ZeroTokens)
    ELSE sumTokensFrom(SubSeq(rs, 1, Len(rs) - 1), 1, ZeroTokens)

\* responses.reduce(..., {0, 0, 0})
sumTokens(rs) == sumTokensFrom(rs, 1, ZeroTokens)

\* request.context ? `${prompt}\n\nContext:\n${context}` : prompt
UserContent(req) ==
    IF req.context # "" THEN <<req.prompt, "\n\nContext:\n", req.context>>
    ELSE <<req.prompt>>

Msg(id, role, content, provider) ==
    [id |-> id, role |-> role, content |-> content, provider |-> provider]

Event(type, phase, provider) == [type |-> type, phase |-> phase, provider |-> provider]

Call(agent, purpose, history, system) ==
    [agent |-> agent, purpose |-> purpose, history |-> history, system |-> system]

OrchestrationResult(rs, final, msgs, usage) ==
    [kind |-> "result", strategy |-> strategy, responses |-> rs, finalOutput |-> final,
     conversation |-> msgs, tokenUsage |-> usage]

----------------------------------------------------------------------------
(* Pure helpers of the strategies *)

\* mutant: the roles are always the first three entries, with no reuse of an agent
assignRolesNoReuse(providers) == <<At(providers, 0), At(providers, 1), At(providers, 2)>>

\* mutant: with two agents the second one reviews its own implementation
assignRolesSelfReview(providers) ==
    IF Len(providers) >= 3 THEN <<At(providers, 0), At(providers, 1), At(providers, 2)>>
    ELSE IF Len(providers) = 2 THEN <<At(providers, 0), At(providers, 1), At(providers, 1)>>
    ELSE <<At(providers, 0), At(providers, 0), At(providers, 0)>>

\* CollaborativeStrategy.assignRoles: <<architect, developer, reviewer>>
assignRoles(providers) ==
    IF Len(providers) >= 3 THEN <<At(providers, 0), At(providers, 1), At(providers, 2)>>
    ELSE IF Len(providers) = 2 THEN <<At(providers, 0), At(providers, 1), At(providers, 0)>>
    ELSE <<At(providers, 0), At(providers, 0), At(providers, 0)>>

positiveSignals == {"looks good", "approved", "no issues", "well implemented", "ship it", "lgtm"}

\* String.prototype.includes of a lower-cased word: the word is the signal or has it inside
Includes(w, signal) ==
    \/ w = signal
    \/ w = "unapproved" /\ signal = "approved"

\* mutant: no review is ever taken for an approval
isConsensusNever(reviewContent) == FALSE

\* CollaborativeStrategy.isConsensusReached
isConsensusReached(reviewContent) ==
    \E signal \in positiveSignals :
        \E k \in 1..Len(reviewContent) : Includes(ToLower(reviewContent[k]), signal)

\* mutant: only the first word of the output is carried into the conversation
toMessageTruncated(id, response, label) ==
    Msg(id, "assistant",
        <<"[", label, " - ", response.provider, "]: ">> \o SubSeq(response.content, 1, 1),
        response.provider)

\* CollaborativeStrategy.toMessage: `[${label} - ${response.provider}]: ${response.content}`
toMessage(id, response, label) ==
    Msg(id, "assistant", <<"[", label, " - ", response.provider, "]: ">> \o response.content,
        response.provider)

null == -1

IsSpace(w) == w \in {" ", "\n", "\t"}

IsDigit(w) == \E d \in 1..Len(Digits) : Digits[d] = w

DigitValue(w) == (CHOOSE d \in 1..Len(Digits) : Digits[d] = w) - 1

\* \s* : the first position at or after p that holds no whitespace
RECURSIVE SkipSpace(_, _)
SkipSpace(text, p) ==
    IF p <= Len(text) /\ IsSpace(text[p]) THEN SkipSpace(text, p + 1) ELSE p

\* /WINNER:\s*Candidate\s*(\d+)/i matches at position p; the position of the first digit
DigitsStart(text, p) ==
    IF p <= Len(text) /\ ToLower(text[p]) = "winner:"
    THEN LET q == SkipSpace(text, p + 1)
         IN IF q <= Len(text) /\ ToLower(text[q]) = "candidate"
            THEN LET r == SkipSpace(text, q + 1)
                 IN IF r <= Len(text) /\ IsDigit(text[r]) THEN r ELSE 0
            ELSE 0
    ELSE 0

\* String.prototype.match: the leftmost match, 0 when there is none
RECURSIVE FirstMatch(_, _)
FirstMatch(text, p) ==
    IF p > Len(text) THEN 0
    ELSE IF DigitsStart(text, p) # 0 THEN DigitsStart(text, p)
    ELSE FirstMatch(text, p + 1)

\* parseInt(match[1], 10) over the greedy run of digits (\d+)
RECURSIVE parseInt(_, _, _)
parseInt(text, r, acc) ==
    IF r <= Len(text) /\ IsDigit(text[r])
    THEN parseInt(text, r + 1, 10 * acc + DigitValue(text[r]))
    ELSE acc

\* mutant: a number out of range selects the first candidate
parseWinnerClamped(judgingContent, maxCandidates) ==
    LET match == FirstMatch(judgingContent, 1)
    IN IF match # 0
       THEN LET index == parseInt(judgingContent, match, 0) - 1
            IN IF index >= 0 /\ index < maxCandidates THEN index ELSE 0
       ELSE null

\* mutant: the candidate number is used as a 0-based index
parseWinnerZeroBased(judgingContent, maxCandidates) ==
    LET match == FirstMatch(judgingContent, 1)
    IN IF match # 0
       THEN LET index == parseInt(judgingContent, match, 0)
            IN IF index >= 0 /\ index < maxCandidates THEN index ELSE null
       ELSE null

\* CompetitiveStrategy.parseWinner
parseWinner(judgingContent, maxCandidates) ==
    LET match == FirstMatch(judgingContent, 1)
    IN IF match # 0
       THEN LET index == parseInt(judgingContent, match, 0) - 1
            IN IF index >= 0 /\ index < maxCandidates THEN index ELSE null
       ELSE null

----------------------------------------------------------------------------
(* Shared steps of execute() *)

inputs == <<strategy, providerList, config, request>>

\* mutant: the error is noted and the failed call is awaited again
ThrowAndRetry(message) ==
    /\ pc' = pc
    /\ error' = message
    /\ inflight' = inflight

\* A rejected execute(): the error propagates to the caller, no result is returned
Throw(message) ==
    /\ pc' = "failed"
    /\ error' = message
    /\ inflight' = {}

\* provider.sendMessages(history, system) followed by await: the run suspends at `at`.
\* Calling a method of undefined throws a TypeError.
SendTo(agent, purpose, history, system, at) ==
    IF agent = Undefined
    THEN Throw("TypeError") /\ UNCHANGED calls
    ELSE /\ calls' = Append(calls, Call(agent, purpose, history, system))
         /\ inflight' = {[slot |-> 0, agent |-> agent, purpose |-> purpose]}
         /\ pc' = at
         /\ UNCHANGED error

\* The call the run is suspended on
Awaited == CHOOSE c \in inflight : c.slot = 0

----------------------------------------------------------------------------
(* CollaborativeStrategy.execute *)

SynthesisRequest(id) ==
    Msg(id, "user", <<"Synthesize all the discussion into a final, complete deliverable.">>, "")

\* lines 102-113: push the synthesis request, call the architect
CollabSynthesize(architect, msgs, id) ==
    /\ messages' = Append(msgs, SynthesisRequest(id))
    /\ nextId' = id + 1
    /\ SendTo(architect, "synthesis", messages', "final", "collab_synth")

ExecuteCollaborative ==
    /\ pc = "idle" /\ strategy = "collaborative"
    /\ UNCHANGED <<inputs, mvars, idx, responses, settled, result, consumed, completionOrder>>
    /\ IF Len(providerList) = 0
       THEN /\ Throw("No providers available for collaborative strategy")
            /\ UNCHANGED <<round, roles, messages, calls, events, nextId>>
       ELSE LET user == Msg(nextId, "user", UserContent(request), "")
            IN /\ roles' = assignRoles(providerList)
               /\ round' = 0
               /\ IF 0 < config.maxRounds
                  THEN /\ events' = Append(events, Event("strategy:phaseStarted", "design", ""))
                       /\ nextId' = nextId + 1
                       /\ messages' = <<user>>
                       /\ SendTo(roles'[1], "design", messages', "architect", "collab_arch")
                  ELSE /\ UNCHANGED events
                       /\ CollabSynthesize(roles'[1], <<user>>, nextId + 1)

\* lines 64-78: the architect's design arrives, the developer is called
CollabArchitectReturns ==
    /\ pc = "collab_arch"
    /\ UNCHANGED <<inputs, mvars, idx, roles, round, settled, result, events, completionOrder>>
    /\ \E o \in Outcomes("design", Awaited.agent) :
          IF ~o.ok
          THEN /\ Throw("AgentCallFailed")
               /\ UNCHANGED <<responses, messages, calls, nextId, consumed>>
          ELSE /\ responses' = Append(responses, Response(o))
               /\ consumed' = addTokens(consumed, o.tokensUsed)
               /\ messages' = Append(messages, toMessage(nextId, Response(o), "Architect"))
               /\ nextId' = nextId + 1
               /\ SendTo(roles[2], "implement", messages', "developer-implement", "collab_dev")

\* lines 73-87: the implementation arrives, the reviewer is called
CollabDeveloperReturns ==
    /\ pc = "collab_dev"
    /\ UNCHANGED <<inputs, mvars, idx, roles, round, settled, result, events, completionOrder>>
    /\ \E o \in Outcomes("implement", Awaited.agent) :
          IF ~o.ok
          THEN /\ Throw("AgentCallFailed")
               /\ UNCHANGED <<responses, messages, calls, nextId, consumed>>
          ELSE /\ responses' = Append(responses, Response(o))
               /\ consumed' = addTokens(consumed, o.tokensUsed)
               /\ messages' = Append(messages, toMessage(nextId, Response(o), "Developer"))
               /\ nextId' = nextId + 1
               /\ SendTo(roles[3], "review", messages', "reviewer", "collab_review")

\* lines 83-113: the review arrives; consensus or the round limit ends the loop
CollabReviewerReturns ==
    /\ pc = "collab_review"
    /\ UNCHANGED <<inputs, mvars, idx, roles, settled, result, completionOrder>>
    /\ \E o \in Outcomes("review", Awaited.agent) :
          IF ~o.ok
          THEN /\ Throw("AgentCallFailed")
               /\ UNCHANGED <<round, responses, messages, calls, events, nextId, consumed>>
          ELSE LET msgs == Append(messages, toMessage(nextId, Response(o), "Reviewer"))
                   completed == Append(events, Event("strategy:phaseCompleted", "round", ""))
               IN /\ responses' = Append(responses, Response(o))
                  /\ consumed' = addTokens(consumed, o.tokensUsed)
                  /\ IF isConsensusReached(o.content)
                     THEN /\ UNCHANGED round
                          /\ events' = completed
                          /\ CollabSynthesize(roles[1], msgs, nextId + 1)
                     ELSE /\ round' = round + 1
                          /\ IF round' < config.maxRounds
                             THEN /\ events' = Append(completed,
                                           Event("strategy:phaseStarted", "refine", ""))
                                  /\ nextId' = nextId + 1
                                  /\ messages' = msgs
                                  /\ SendTo(roles[2], "implement", msgs, "developer-refine",
                                            "collab_dev")
                             ELSE /\ events' = completed
                                  /\ CollabSynthesize(roles[1], msgs, nextId + 1)

\* lines 110-132: the synthesis arrives, the result is returned
CollabSynthesisReturns ==
    /\ pc = "collab_synth"
    /\ UNCHANGED <<inputs, mvars, idx, roles, round, settled, messages, calls, events,
                   nextId, completionOrder>>
    /\ \E o \in Outcomes("synthesis", Awaited.agent) :
          IF ~o.ok
          THEN /\ Throw("AgentCallFailed")
               /\ UNCHANGED <<responses, result, consumed>>
          ELSE /\ responses' = Append(responses, Response(o))
               /\ consumed' = addTokens(consumed, o.tokensUsed)
               /\ result' = OrchestrationResult(responses', o.content, messages,
                                                sumTokens(responses'))
               /\ pc' = "done"
               /\ inflight' = {}
               /\ UNCHANGED error

----------------------------------------------------------------------------
(* SequentialStrategy.execute *)

\* i === 0 ? 'first' : i === providerList.length - 1 ? 'final' : 'middle'
position(i, n) == IF i = 0 THEN "first" ELSE IF i = n - 1 THEN "final" ELSE "middle"

\* mutant: the loop stops one agent early
seqLoopConditionOffByOne(i, n) == i < n - 1

\* the loop condition of line 50: i < providerList.length
seqLoopCondition(i, n) == i < n

\* lines 51-66 for index i: the request event, then the call of providerList[i]
SeqCall(i, msgs, evs) ==
    /\ events' = Append(evs, Event("provider:request", position(i, Len(providerList)),
                                   At(providerList, i)))
    /\ SendTo(At(providerList, i), "step", msgs, position(i, Len(providerList)), "seq_step")

ExecuteSequential ==
    /\ pc = "idle" /\ strategy = "sequential"
    /\ UNCHANGED <<inputs, mvars, round, roles, responses, settled, result, consumed,
                   completionOrder>>
    /\ IF Len(providerList) = 0
       THEN /\ Throw("No providers available for sequential strategy")
            /\ UNCHANGED <<idx, messages, calls, events, nextId>>
       ELSE /\ messages' = <<Msg(nextId, "user", UserContent(request), "")>>
            /\ nextId' = nextId + 1
            /\ idx' = 0
            /\ SeqCall(0, messages', events)

\* `[Step ${i + 1} - ${provider.name}]: ${response.content}`
StepMessage(id, i, provider, response) ==
    Msg(id, "assistant",
        <<"[Step ", ToString(i + 1), " - ", provider, "]: ">> \o response.content, provider)

\* lines 66-102: the response of step idx arrives; next step, or the result
SeqStepReturns ==
    /\ pc = "seq_step"
    /\ UNCHANGED <<inputs, mvars, round, roles, settled, completionOrder>>
    /\ \E o \in Outcomes("step", Awaited.agent) :
          IF ~o.ok
          THEN /\ Throw("AgentCallFailed")
               /\ UNCHANGED <<idx, responses, messages, calls, events, result, nextId, consumed>>
          ELSE LET evs == Append(events, Event("provider:response",
                                  position(idx, Len(providerList)), At(providerList, idx)))
               IN /\ responses' = Append(responses, Response(o))
                  /\ consumed' = addTokens(consumed, o.tokensUsed)
                  /\ messages' = Append(messages,
                                   StepMessage(nextId, idx, At(providerList, idx), Response(o)))
                  /\ nextId' = nextId + 1
                  /\ idx' = idx + 1
                  /\ IF seqLoopCondition(idx', Len(providerList))
                     THEN /\ SeqCall(idx', messages', evs)
                          /\ UNCHANGED result
                     ELSE /\ events' = evs
                          /\ result' = OrchestrationResult(responses',
                                          responses'[Len(responses')].content, messages',
                                          sumTokens(responses'))
                          /\ pc' = "done"
                          /\ inflight' = {}
                          /\ UNCHANGED <<calls, error>>

----------------------------------------------------------------------------
(* The fan-out of ParallelStrategy and CompetitiveStrategy *)

Pending == [status |-> "pending", value |-> <<>>]

\* providerList.map(provider => provider.sendMessages([userMessage], system)): every call
\* is issued, in list order, before the run suspends on Promise.allSettled
RECURSIVE FanOutCalls(_, _, _, _)
FanOutCalls(providers, i, history, system) ==
    IF i > Len(providers) THEN <<>>
    ELSE <<Call(providers[i], "fanout", history, system)>>
         \o FanOutCalls(providers, i + 1, history, system)

FanOut(userMessage, system, at) ==
    /\ messages' = <<userMessage>>
    /\ nextId' = nextId + 1
    /\ calls' = calls \o FanOutCalls(providerList, 1, <<userMessage>>, system)
    /\ inflight' = {[slot |-> i, agent |-> providerList[i], purpose |-> "fanout"] :
                      i \in 1..Len(providerList)}
    /\ settled' = [i \in 1..Len(providerList) |-> Pending]
    /\ pc' = at
    /\ UNCHANGED error

\* One of the concurrent calls completes; Promise.allSettled records its outcome in the
\* slot of its list position
FanOutSettles ==
    /\ pc \in {"par_fanout", "comp_fanout"}
    /\ UNCHANGED <<inputs, mvars, pc, round, idx, roles, responses, messages, calls, events,
                   result, error, nextId>>
    /\ \E c \in inflight :
         \E o \in Outcomes("fanout", c.agent) :
            /\ inflight' = inflight \ {c}
            /\ completionOrder' = Append(completionOrder, c.slot)
            /\ IF o.ok
               THEN /\ settled' = [settled EXCEPT
                                     ![c.slot] = [status |-> "fulfilled", value |-> Response(o)]]
                    /\ consumed' = addTokens(consumed, o.tokensUsed)
               ELSE /\ settled' = [settled EXCEPT
                                     ![c.slot] = [status |-> "rejected", value |-> <<>>]]
                    /\ UNCHANGED consumed

\* mutant: the run resumes as soon as one call has settled (Promise.race)
raceSettled(st) == \E i \in DOMAIN st : st[i].status # "pending"

\* await Promise.allSettled(promises): the run resumes when no call is pending
allSettled(st) == \A i \in DOMAIN st : st[i].status # "pending"

\* mutant: the responses are pushed as the calls complete
CollectInCompletionOrder(st, i) ==
    LET done == SelectSeq(completionOrder, LAMBDA slot : st[slot].status = "fulfilled")
    IN [k \in 1..Len(done) |-> st[done[k]].value]

\* for (i = 0; i < settled.length; i++) if fulfilled responses.push(result.value)
RECURSIVE CollectResponses(_, _)
CollectResponses(st, i) ==
    IF i > Len(st) THEN <<>>
    ELSE (IF st[i].status = "fulfilled" THEN <<st[i].value>> ELSE <<>>)
         \o CollectResponses(st, i + 1)

\* mutant: a rejected call is passed over in silence
RECURSIVE CollectEventsSilent(_, _, _)
CollectEventsSilent(st, i, withSuccess) ==
    IF i > Len(st) THEN <<>>
    ELSE (IF st[i].status = "fulfilled" /\ withSuccess
          THEN <<Event("provider:response", "success", providerList[i])>>
          ELSE <<>>)
         \o CollectEventsSilent(st, i + 1, withSuccess)

\* the events of the same loop: provider:error for a rejected call, and (Parallel only)
\* provider:response for a fulfilled one
RECURSIVE CollectEvents(_, _, _)
CollectEvents(st, i, withSuccess) ==
    IF i > Len(st) THEN <<>>
    ELSE (IF st[i].status = "fulfilled"
          THEN (IF withSuccess THEN <<Event("provider:response", "success", providerList[i])>>
                ELSE <<>>)
          ELSE <<Event("provider:error", "error", providerList[i])>>)
         \o CollectEvents(st, i + 1, withSuccess)

\* mutant: the check for a fan-out without any success is missing
allFailedUnchecked(collected) == FALSE

\* mutant: a single success is taken for a total failure
allFailedBelowTwo(collected) == Len(collected) <= 1

\* if (responses.length === 0) throw, lines 85 (Parallel) and 78 (Competitive)
allFailed(collected) == Len(collected) = 0

\* responses.map((r, i) => `[${label} ${i + 1} from ${r.provider}]:\n${r.content}`)
RECURSIVE LabelledResponses(_, _, _, _)
LabelledResponses(rs, i, label, firstId) ==
    IF i > Len(rs) THEN <<>>
    ELSE <<Msg(firstId + i - 1, "assistant",
               <<"[", label, " ", ToString(i), " from ", rs[i].provider, "]:\n">>
               \o rs[i].content, rs[i].provider)>>
         \o LabelledResponses(rs, i + 1, label, firstId)

----------------------------------------------------------------------------
(* ParallelStrategy.execute *)

\* mutant: the phase event is emitted before the agent list is looked at
ExecuteParallelLateCheck ==
    /\ pc = "idle" /\ strategy = "parallel"
    /\ UNCHANGED <<inputs, mvars, round, idx, roles, responses, result, consumed,
                   completionOrder>>
    /\ events' = Append(events, Event("strategy:phaseStarted", "parallel-execution", ""))
    /\ IF Len(providerList) = 0
       THEN /\ Throw("No providers available for parallel strategy")
            /\ UNCHANGED <<messages, calls, settled, nextId>>
       ELSE FanOut(Msg(nextId, "user", UserContent(request), ""), "independent", "par_fanout")

ExecuteParallel ==
    /\ pc = "idle" /\ strategy = "parallel"
    /\ UNCHANGED <<inputs, mvars, round, idx, roles, responses, result, consumed,
                   completionOrder>>
    /\ IF Len(providerList) = 0
       THEN /\ Throw("No providers available for parallel strategy")
            /\ UNCHANGED <<messages, calls, events, settled, nextId>>
       ELSE /\ events' = Append(events,
                            Event("strategy:phaseStarted", "parallel-execution", ""))
            /\ FanOut(Msg(nextId, "user", UserContent(request), ""), "independent",
                      "par_fanout")

\* mutant: the last agent of the list synthesizes
synthesizerIsLast(providers) == At(providers, Len(providers) - 1)

\* const synthesizer = providerList[0], line 123
synthesizer(providers) == At(providers, 0)

\* mergeMessages, lines 102-121
mergeMessages(userMessage, rs, firstId) ==
    <<userMessage>> \o LabelledResponses(rs, 1, "Response", firstId)
    \o <<Msg(firstId + Len(rs), "user",
             <<ToString(Len(rs)), " AIs independently responded above.", "Synthesize">>, "")>>

\* lines 65-127: all calls have settled; collect, then call the synthesizer
ParallelCollect ==
    /\ pc = "par_fanout" /\ allSettled(settled)
    /\ UNCHANGED <<inputs, mvars, round, idx, roles, settled, result, consumed,
                   completionOrder>>
    /\ LET collected == CollectResponses(settled, 1)
           evs == events \o CollectEvents(settled, 1, TRUE)
       IN /\ responses' = collected
          /\ IF allFailed(collected)
             THEN /\ events' = evs
                  /\ Throw("All providers failed in parallel execution")
                  /\ UNCHANGED <<messages, calls, nextId>>
             ELSE LET merge == mergeMessages(messages[1], collected, nextId)
                  IN /\ events' = evs \o
                          <<Event("strategy:phaseCompleted", "parallel-execution", ""),
                            Event("strategy:phaseStarted", "merge", "")>>
                     /\ nextId' = nextId + Len(collected) + 1
                     /\ UNCHANGED messages
                     /\ SendTo(synthesizer(providerList), "merge", merge, "synthesizer", "par_merge")

\* lines 124-154: the merged answer arrives, the result is returned
ParallelMergeReturns ==
    /\ pc = "par_merge"
    /\ UNCHANGED <<inputs, mvars, round, idx, roles, settled, calls, nextId, completionOrder>>
    /\ \E o \in Outcomes("merge", Awaited.agent) :
          IF ~o.ok
          THEN /\ Throw("AgentCallFailed")
               /\ UNCHANGED <<responses, messages, events, result, consumed>>
          ELSE /\ responses' = Append(responses, Response(o))
               /\ consumed' = addTokens(consumed, o.tokensUsed)
               /\ messages' = messages \o calls[Len(calls)].history
               /\ events' = Append(events, Event("strategy:phaseCompleted", "merge", ""))
               /\ result' = OrchestrationResult(responses', o.content, messages',
                                                sumTokens(responses'))
               /\ pc' = "done"
               /\ inflight' = {}
               /\ UNCHANGED error

----------------------------------------------------------------------------
(* CompetitiveStrategy.execute *)

ExecuteCompetitive ==
    /\ pc = "idle" /\ strategy = "competitive"
    /\ UNCHANGED <<inputs, mvars, round, idx, roles, responses, result, consumed,
                   completionOrder>>
    /\ IF Len(providerList) = 0
       THEN /\ Throw("No providers available for competitive strategy")
            /\ UNCHANGED <<messages, calls, events, settled, nextId>>
       ELSE /\ events' = Append(events, Event("strategy:phaseStarted", "competition", ""))
            /\ FanOut(Msg(nextId, "user", UserContent(request), ""), "competing",
                      "comp_fanout")

\* const judge = providerList[providerList.length - 1], line 115
judge(providers) == At(providers, Len(providers) - 1)

\* judgingMessages, lines 116-136
judgingMessages(userMessage, rs, firstId) ==
    <<userMessage>> \o LabelledResponses(rs, 1, "Candidate", firstId)
    \o <<Msg(firstId + Len(rs), "user",
             <<"Judge the ", ToString(Len(rs)), " candidate responses above.",
               "Format: \"WINNER: Candidate X\"">>, "")>>

\* mutant: a lone candidate is judged like any other
onlyOneResponseIgnored(rs) == FALSE

\* if (responses.length === 1), line 88
onlyOneResponse(rs) == Len(rs) = 1

\* the lone candidate's usage, line 104
SoleCandidateUsage(rs) == rs[1].tokensUsed

\* lines 64-141: all calls have settled; collect, then return the lone candidate or
\* call the judge
CompetitiveCollect ==
    /\ pc = "comp_fanout" /\ allSettled(settled)
    /\ UNCHANGED <<inputs, mvars, round, idx, roles, settled, consumed, completionOrder>>
    /\ LET collected == CollectResponses(settled, 1)
           evs == events \o CollectEvents(settled, 1, FALSE)
       IN /\ responses' = collected
          /\ IF allFailed(collected)
             THEN /\ events' = evs
                  /\ Throw("All providers failed in competitive execution")
                  /\ UNCHANGED <<messages, calls, result, nextId>>
             ELSE IF onlyOneResponse(collected)
             THEN /\ events' = Append(evs, Event("strategy:phaseCompleted", "competition", ""))
                  /\ result' = OrchestrationResult(collected, collected[1].content, messages,
                                                   SoleCandidateUsage(collected))
                  /\ pc' = "done"
                  /\ UNCHANGED <<messages, calls, nextId, inflight, error>>
             ELSE LET judging == judgingMessages(messages[1], collected, nextId)
                  IN /\ events' = evs \o
                          <<Event("strategy:phaseCompleted", "competition", ""),
                            Event("strategy:phaseStarted", "judging", "")>>
                     /\ nextId' = nextId + Len(collected) + 1
                     /\ UNCHANGED <<messages, result>>
                     /\ SendTo(judge(providerList), "judge", judging, "judge",
                               "comp_judge")

\* lines 146-148: the winner's content, or the judge's own text
finalOutput(rs, judgingResponse) ==
    LET winnerIndex == parseWinner(judgingResponse.content, Len(rs) - 1)
    IN IF winnerIndex # null THEN rs[winnerIndex + 1].content ELSE judgingResponse.content

\* lines 138-174: the verdict arrives, the result is returned
CompetitiveJudgeReturns ==
    /\ pc = "comp_judge"
    /\ UNCHANGED <<inputs, mvars, round, idx, roles, settled, calls, nextId, completionOrder>>
    /\ \E o \in Outcomes("judge", Awaited.agent) :
          IF ~o.ok
          THEN /\ Throw("AgentCallFailed")
               /\ UNCHANGED <<responses, messages, events, result, consumed>>
          ELSE /\ responses' = Append(responses, Response(o))
               /\ consumed' = addTokens(consumed, o.tokensUsed)
               /\ messages' = messages \o calls[Len(calls)].history
               /\ events' = Append(events, Event("strategy:phaseCompleted", "judging", ""))
               /\ result' = OrchestrationResult(responses', finalOutput(responses', Response(o)),
                                                messages', sumTokens(responses'))
               /\ pc' = "done"
               /\ inflight' = {}
               /\ UNCHANGED error

----------------------------------------------------------------------------
(* One run of execute() *)

\* the StrategyConfig of a run; only Collaborative reads it (the others take _config)
StrategyConfigs(s) ==
    IF s = "collaborative" THEN {[maxRounds |-> r] : r \in 0..MaxRounds}
    ELSE {[maxRounds |-> 0]}

\* Array.from(providers.values()): the registered agents in registration order
ProviderLists(s) ==
    {SubSeq(ProviderNames, 1, n) :
        n \in 0..(IF s \in {"collaborative", "sequential"} THEN MaxListedAgents ELSE MaxAgents)}

Init ==
    /\ strategy \in Strategies
    /\ providerList \in ProviderLists(strategy)
    /\ config \in StrategyConfigs(strategy)
    /\ request \in Requests
    /\ pc = "idle"
    /\ round = 0
    /\ idx = 0
    /\ roles = <<>>
    /\ responses = <<>>
    /\ messages = <<>>
    /\ settled = <<>>
    /\ inflight = {}
    /\ calls = <<>>
    /\ events = <<>>
    /\ result = NoResult
    /\ error = ""
    /\ nextId = 1
    /\ consumed = ZeroTokens
    /\ completionOrder = <<>>
    /\ agenda = <<>>
    /\ mpc = "off"
    /\ mround = 0
    /\ rpos = 0
    /\ turnNumber = 0
    /\ turns = <<>>
    /\ conversationHistory = <<>>
    /\ totalTokens = ZeroTokens
    /\ mcalls = <<>>
    /\ mevents = <<>>
    /\ meetingResult = NoResult
    /\ meetingError = NoError
    /\ registry = <<>>
    /\ assignments = <<>>
    /\ session = Null
    /\ nextSessionId = 1
    /\ sessionEvents = <<>>
    /\ stopMark = NoMark
    /\ agentTexts = {}
    /\ NoDecisions
    /\ PipelineOff

Next ==
    \/ ExecuteCollaborative
    \/ CollabArchitectReturns
    \/ CollabDeveloperReturns
    \/ CollabReviewerReturns
    \/ CollabSynthesisReturns
    \/ ExecuteSequential
    \/ SeqStepReturns
    \/ ExecuteParallel
    \/ ExecuteCompetitive
    \/ FanOutSettles
    \/ ParallelCollect
    \/ ParallelMergeReturns
    \/ CompetitiveCollect
    \/ CompetitiveJudgeReturns

Spec == Init /\ [][Next]_vars

----------------------------------------------------------------------------
(* Properties of the strategies, checked under Spec *)

FanOutStrategy == strategy \in {"parallel", "competitive"}

Fulfilled == {i \in DOMAIN settled : settled[i].status = "fulfilled"}

Rejected == {i \in DOMAIN settled : settled[i].status = "rejected"}

\* the fan-out has been issued and every call of it has settled
FanOutOver ==
    /\ FanOutStrategy
    /\ Len(settled) > 0
    /\ Fulfilled \cup Rejected = DOMAIN settled

CallsFor(purposes) == {k \in DOMAIN calls : calls[k].purpose \in purposes}

\* the position of an agent in the agent list
ListPosition(agent) == CHOOSE i \in DOMAIN providerList : providerList[i] = agent

\* C1: the tokenUsage of every returned result is the element-wise sum of the tokensUsed
\* of every response an agent returned in the run (consumed adds them up as they arrive),
\* synthesis and judging calls and the lone competitive candidate included.
C1_TokenUsageIsSum ==
    pc = "done" => result.tokenUsage = consumed

C1_Witness ==
    /\ pc = "done" /\ strategy = "parallel"
    /\ Cardinality(Fulfilled) >= 2
    /\ Len(result.responses) = Cardinality(Fulfilled) + 1
    /\ result.tokenUsage.totalTokens >= 9

\* C2: a successful Sequential run over N agents issued exactly N calls, one per agent in
\* list order, returns N responses in that order and a conversation of N + 1 messages:
\* the user prompt, then one assistant message per agent.
C2_SequentialCounts ==
    (pc = "done" /\ strategy = "sequential") =>
        LET N == Len(providerList)
        IN /\ N >= 1
           /\ Len(calls) = N
           /\ Len(result.responses) = N
           /\ Len(result.conversation) = N + 1
           /\ result.conversation[1].role = "user"
           /\ result.conversation[1].content = UserContent(request)
           /\ \A k \in 1..N :
                 /\ calls[k].agent = providerList[k]
                 /\ result.responses[k].provider = providerList[k]
                 /\ result.conversation[k + 1].role = "assistant"
                 /\ result.conversation[k + 1].provider = providerList[k]

C2_Witness ==
    /\ pc = "done" /\ strategy = "sequential"
    /\ Len(providerList) = 3
    /\ Len(result.conversation) = 4

\* C3: Collaborative with one agent never fails on role assignment (no call on an
\* undefined agent), suspends only on agent calls, and issues at most maxRounds
\* developer calls and maxRounds reviewer calls and at most one synthesis call, so at
\* most 2 * maxRounds + 2 calls; a returned result was preceded by exactly one
\* synthesis call, the last call of the run.
C3_SingleAgentCollaborative ==
    (strategy = "collaborative" /\ Len(providerList) = 1) =>
        /\ error # "TypeError"
        /\ \A k \in DOMAIN calls : calls[k].agent = providerList[1]
        /\ pc \notin {"idle", "done", "failed"} => inflight # {}
        /\ Cardinality(CallsFor({"implement"})) <= config.maxRounds
        /\ Cardinality(CallsFor({"review"})) <= config.maxRounds
        /\ Cardinality(CallsFor({"synthesis"})) <= 1
        /\ Len(calls) <= 2 * config.maxRounds + 2
        /\ pc = "done" => /\ CallsFor({"synthesis"}) = {Len(calls)}
                          /\ result.kind = "result"

C3_Witness ==
    /\ strategy = "collaborative" /\ Len(providerList) = 1
    /\ pc = "done"
    /\ config.maxRounds = 2
    /\ Len(calls) = 6

\* C4: when every call of the fan-out has failed, Parallel and Competitive issue no
\* synthesis or judging call and return no result; once the run has resumed it has
\* failed with the all-providers-failed error.
C4_AllFailedIsFatal ==
    (FanOutOver /\ Fulfilled = {}) =>
        /\ CallsFor({"merge", "judge"}) = {}
        /\ result = NoResult
        /\ pc \in {"par_fanout", "comp_fanout", "failed"}
        /\ pc = "failed" =>
              error = (IF strategy = "parallel"
                       THEN "All providers failed in parallel execution"
                       ELSE "All providers failed in competitive execution")

C4_Witness ==
    /\ FanOutOver /\ Fulfilled = {}
    /\ Len(providerList) = 3
    /\ pc = "failed"
    /\ strategy = "competitive"

\* a verdict line in a text: WINNER: <spaces> Candidate <spaces> <digit>, any letter case;
\* p is where it starts and r where its number starts
VerdictLineAt(text, p, r) ==
    /\ p \in DOMAIN text /\ r \in DOMAIN text /\ p < r
    /\ ToLower(text[p]) = "winner:"
    /\ IsDigit(text[r])
    /\ \E q \in (p + 1)..(r - 1) :
          /\ ToLower(text[q]) = "candidate"
          /\ \A k \in ((p + 1)..(r - 1)) \ {q} : IsSpace(text[k])

HasVerdictLine(text) == \E p, r \in DOMAIN text : VerdictLineAt(text, p, r)

\* the first verdict line of the text names exactly candidate 2
VerdictIsCandidate2(text) ==
    \E p, r \in DOMAIN text :
        /\ VerdictLineAt(text, p, r)
        /\ \A p2, r2 \in DOMAIN text : VerdictLineAt(text, p2, r2) => p <= p2
        /\ text[r] = "2"
        /\ (r + 1 \in DOMAIN text => ~IsDigit(text[r + 1]))

\* C5: in a Competitive result with at least two candidates, a judge text whose verdict
\* is "WINNER: Candidate 2" makes finalOutput the content of the second candidate; a
\* judge text with no verdict line makes finalOutput the judge's own text.
C5_WinnerOrJudgeText ==
    (pc = "done" /\ strategy = "competitive" /\ Len(result.responses) >= 3) =>
        LET judgeText == result.responses[Len(result.responses)].content
        IN /\ VerdictIsCandidate2(judgeText) =>
                 result.finalOutput = result.responses[2].content
           /\ ~HasVerdictLine(judgeText) => result.finalOutput = judgeText

C5_Witness ==
    /\ pc = "done" /\ strategy = "competitive"
    /\ Len(result.responses) = 3
    /\ result.responses[3].content = Verdict("2")
    /\ result.finalOutput = result.responses[2].content
    /\ result.finalOutput # result.responses[3].content
    /\ result.finalOutput # result.responses[1].content

\* the responses collected from the fan-out (without the synthesis or judging response)
Collected ==
    IF CallsFor({"merge", "judge"}) # {} /\ pc = "done"
    THEN SubSeq(responses, 1, Len(responses) - 1)
    ELSE responses

\* C9: after the fan-out the collected responses are those of the fulfilled calls in
\* agent-list order, whatever the completion order, and the synthesis or judging prompt
\* lists them in the same order.
C9_CollectedInListOrder ==
    (FanOutOver /\ pc \in {"par_merge", "comp_judge", "done"}) =>
        /\ Len(Collected) = Cardinality(Fulfilled)
        /\ \A k \in DOMAIN Collected :
              /\ ListPosition(Collected[k].provider) \in Fulfilled
              /\ Collected[k] = settled[ListPosition(Collected[k].provider)].value
        /\ \A k, l \in DOMAIN Collected :
              k < l => ListPosition(Collected[k].provider) < ListPosition(Collected[l].provider)
        /\ \A c \in CallsFor({"merge", "judge"}) :
              /\ Len(calls[c].history) = Len(Collected) + 2
              /\ \A k \in DOMAIN Collected :
                    calls[c].history[k + 1].provider = Collected[k].provider

C9_Witness ==
    /\ FanOutOver /\ pc = "par_merge"
    /\ Len(completionOrder) = 3
    /\ completionOrder[1] = 3 /\ completionOrder[2] = 1
    /\ Fulfilled = {1, 3}
    /\ Collected[1].provider = providerList[1]
    /\ Collected[2].provider = providerList[3]

\* C10 as stated: a Parallel or Competitive run that failed had every fan-out call fail.
C10_FailsOnlyWhenAllFail ==
    (FanOutStrategy /\ pc = "failed") => Fulfilled = {}

\* C10 amended: a finished Parallel or Competitive run with at least one fulfilled
\* fan-out call has returned a result, unless the synthesis or judging call itself
\* failed, and that failure fails the run.
C10_FailsOnlyOnFanOutOrSynthesis ==
    (FanOutOver /\ Fulfilled # {} /\ pc \in {"done", "failed"}) =>
        \/ pc = "done" /\ result.kind = "result"
        \/ /\ pc = "failed" /\ error = "AgentCallFailed" /\ result = NoResult
           /\ CallsFor({"merge", "judge"}) = {Len(calls)}

C10_Witness ==
    /\ FanOutOver /\ pc = "done"
    /\ Fulfilled # {} /\ Rejected # {}
    /\ result.kind = "result"

\* the fan-out call that succeeded, when exactly one did
SoleSuccess == CHOOSE i \in Fulfilled : TRUE

\* C11: in Competitive, when exactly one fan-out call succeeded, no judging call is
\* issued and no judging phase event is emitted; the result holds only that candidate's
\* response and its content is the finalOutput.
C11_SoleCandidateWins ==
    (strategy = "competitive" /\ FanOutOver /\ Cardinality(Fulfilled) = 1) =>
        /\ CallsFor({"judge"}) = {}
        /\ pc \in {"comp_fanout", "done"}
        /\ \A e \in DOMAIN events : events[e].phase # "judging"
        /\ pc = "done" =>
              /\ result.kind = "result"
              /\ result.responses = <<settled[SoleSuccess].value>>
              /\ result.finalOutput = settled[SoleSuccess].value.content

C11_Witness ==
    /\ strategy = "competitive" /\ pc = "done"
    /\ Len(providerList) = 3
    /\ Fulfilled = {2} /\ Rejected = {1, 3}
    /\ result.responses[1].provider = providerList[2]

\* the agents a Collaborative run has called
CalledAgents == {calls[k].agent : k \in DOMAIN calls}

\* C12: Collaborative casts <<architect, developer, reviewer>> from the agent list: the
\* first three agents, pairwise distinct, when there are three or more; the first as
\* architect and reviewer and the second as developer when there are two; the only
\* agent in all three roles when there is one.  Every call goes to the agent of its
\* role, and no agent after the third is called.
C12_RoleCast ==
    (strategy = "collaborative" /\ pc # "idle" /\ Len(providerList) >= 1) =>
        LET N == Len(providerList)
            architect == roles[1]
            developer == roles[2]
            reviewer == roles[3]
        IN /\ architect = providerList[1]
           /\ N >= 3 => /\ developer = providerList[2] /\ reviewer = providerList[3]
                        /\ architect # developer /\ developer # reviewer
                        /\ architect # reviewer
           /\ N = 2 => developer = providerList[2] /\ reviewer = providerList[1]
           /\ N = 1 => developer = providerList[1] /\ reviewer = providerList[1]
           /\ \A k \in DOMAIN calls :
                 /\ calls[k].purpose \in {"design", "synthesis"} => calls[k].agent = architect
                 /\ calls[k].purpose = "implement" => calls[k].agent = developer
                 /\ calls[k].purpose = "review" => calls[k].agent = reviewer
                 /\ \E i \in 1..Min(N, 3) : calls[k].agent = providerList[i]

C12_Witness ==
    /\ strategy = "collaborative" /\ pc = "done"
    /\ Len(providerList) = 4
    /\ CalledAgents = {providerList[1], providerList[2], providerList[3]}

\* the text holds one of the approval phrases, in any letter case
HoldsApprovalPhrase(text) ==
    \E k \in DOMAIN text :
        ToLower(text[k]) \in {"looks good", "approved", "no issues", "well implemented",
                              "ship it", "lgtm"}

\* the rounds (counted from 1) whose review has arrived and holds an approval phrase;
\* the review of round j is the response of call 2j + 1
ApprovingRounds ==
    {j \in 1..config.maxRounds :
        /\ 2 * j + 1 \in DOMAIN responses
        /\ HoldsApprovalPhrase(responses[2 * j + 1].content)}

RECURSIVE DevelopThenReview(_)
DevelopThenReview(r) ==
    IF r = 0 THEN <<>> ELSE <<"implement", "review">> \o DevelopThenReview(r - 1)

\* C13: a successful Collaborative run with maxRounds >= 1 called the architect for the
\* design once, then developer and reviewer r times in turn, then the architect for the
\* synthesis, where r is the first round with an approving review, or maxRounds when no
\* review approves; once a review approves, only the synthesis call follows it.
C13_CollaborativeCallSequence ==
    (strategy = "collaborative" /\ config.maxRounds >= 1) =>
        /\ \A k \in DOMAIN responses :
              (calls[k].purpose = "review" /\ HoldsApprovalPhrase(responses[k].content)) =>
                 \A m \in DOMAIN calls : m > k => (m = k + 1 /\ calls[m].purpose = "synthesis")
        /\ pc = "done" =>
              LET r == IF ApprovingRounds # {}
                       THEN CHOOSE j \in ApprovingRounds : \A i \in ApprovingRounds : j <= i
                       ELSE config.maxRounds
              IN [k \in DOMAIN calls |-> calls[k].purpose]
                    = <<"design">> \o DevelopThenReview(r) \o <<"synthesis">>

C13_Witness ==
    /\ strategy = "collaborative" /\ pc = "done"
    /\ config.maxRounds = 2
    /\ Len(calls) = 4
    /\ HoldsApprovalPhrase(responses[3].content)

\* C14: in Sequential and Collaborative a failed agent call fails the run: no result is
\* returned, the failed call is the last call issued (none follows it, it is not issued
\* again), and the responses are those of the calls before it.
C14_FailedCallIsFatal ==
    (strategy \in {"sequential", "collaborative"} /\ error = "AgentCallFailed") =>
        /\ pc = "failed"
        /\ result = NoResult
        /\ inflight = {}
        /\ Len(calls) = Len(responses) + 1

C14_Witness ==
    /\ strategy = "sequential" /\ error = "AgentCallFailed"
    /\ Len(providerList) = 3
    /\ Len(calls) = 2 /\ Len(responses) = 1
    /\ pc = "failed"

\* C27: in the fan-out of Parallel and Competitive every agent of the list is called
\* exactly once, with the initial user prompt as its only message; all N calls are issued
\* before any outcome is observed; a failed call leaves its pending siblings in flight;
\* and the synthesis or judging call is issued only when all N calls have settled.
C27_FanOutIsIndependent ==
    (FanOutStrategy /\ pc # "idle" /\ Len(providerList) > 0) =>
        LET N == Len(providerList)
        IN /\ CallsFor({"fanout"}) = 1..N
           /\ \A i \in 1..N :
                 /\ calls[i].agent = providerList[i]
                 /\ Cardinality({k \in CallsFor({"fanout"}) :
                                    calls[k].agent = providerList[i]}) = 1
                 /\ Len(calls[i].history) = 1
                 /\ calls[i].history[1].role = "user"
                 /\ calls[i].history[1].content = UserContent(request)
           /\ Len(completionOrder) > 0 => Len(calls) >= N
           /\ pc \in {"par_fanout", "comp_fanout"} =>
                 \A i \in 1..N :
                    settled[i].status = "pending" <=> \E c \in inflight : c.slot = i
           /\ CallsFor({"merge", "judge"}) # {} =>
                 /\ Fulfilled \cup Rejected = 1..N
                 /\ Len(completionOrder) = N

C27_Witness ==
    /\ strategy = "parallel" /\ pc = "par_merge"
    /\ Len(providerList) = 3
    /\ completionOrder = <<2, 1, 3>>
    /\ Rejected = {2} /\ Fulfilled = {1, 3}
    /\ Len(calls) = 4

\* the list position of the k-th successful fan-out call, counted in list order
NthFulfilled(k) ==
    CHOOSE i \in Fulfilled : Cardinality({j \in Fulfilled : j <= i}) = k

\* message m is the labelled answer number k, unaltered, of the fan-out call at position i
IsLabelledAnswer(m, k, i) ==
    /\ m.role = "assistant"
    /\ m.provider = providerList[i]
    /\ m.content[4] = ToString(k)
    /\ m.content[6] = providerList[i]
    /\ SubSeq(m.content, 8, Len(m.content)) = settled[i].value.content

\* C28: the synthesis call of Parallel goes to the first agent of the list and the judging
\* call of Competitive to the last, whether or not that agent's own fan-out call failed;
\* its messages are the original prompt, then exactly the answers of the successful
\* fan-out calls in list order (none of a failed call), then the instruction.
C28_SynthesizerAndJudge ==
    \A c \in CallsFor({"merge", "judge"}) :
        LET h == calls[c].history
            k == Cardinality(Fulfilled)
        IN /\ calls[c].purpose = "merge" => calls[c].agent = providerList[1]
           /\ calls[c].purpose = "judge" => calls[c].agent = providerList[Len(providerList)]
           /\ h[1] = calls[1].history[1]
           /\ h[1].content = UserContent(request)
           /\ Len(h) = k + 2
           /\ \A n \in 1..k : IsLabelledAnswer(h[n + 1], n, NthFulfilled(n))
           /\ h[k + 2].role = "user"

C28_Witness ==
    /\ strategy = "parallel" /\ pc = "par_merge"
    /\ Len(providerList) = 3
    /\ Rejected = {1}
    /\ calls[4].agent = providerList[1]
    /\ Len(calls[4].history) = 4
    /\ calls[4].history[2].provider = providerList[2]

\* the decimal value of the digits text[r..e]
RECURSIVE DigitsValue(_, _, _)
DigitsValue(text, r, e) ==
    IF e < r THEN 0 ELSE 10 * DigitsValue(text, r, e - 1) + DigitValue(text[e])

\* the number N of the first verdict line "WINNER: Candidate N" of a text that has one
VerdictNumber(text) ==
    LET pr == CHOOSE x \in (DOMAIN text) \X (DOMAIN text) :
                 /\ VerdictLineAt(text, x[1], x[2])
                 /\ \A p2, r2 \in DOMAIN text : VerdictLineAt(text, p2, r2) => x[1] <= p2
        r == pr[2]
        e == CHOOSE z \in r..Len(text) :
                 /\ \A i \in r..z : IsDigit(text[i])
                 /\ (z + 1 \in DOMAIN text => ~IsDigit(text[z + 1]))
    IN DigitsValue(text, r, e)

\* C29: in a Competitive run with k >= 2 successful candidates, "Candidate N" of the
\* judge's verdict is the N-th successful fan-out response in list order; finalOutput is that
\* response's content when 1 <= N <= k and the judge's full text for any other N, and no
\* verdict makes the run fail (a run that failed after the judge was called never received
\* the judge's text).
C29_CandidateNumbering ==
    /\ (pc = "done" /\ strategy = "competitive" /\ Len(result.responses) >= 3) =>
          LET k == Len(result.responses) - 1
              judgeText == result.responses[k + 1].content
          IN /\ k = Cardinality(Fulfilled)
             /\ HasVerdictLine(judgeText) =>
                   LET N == VerdictNumber(judgeText)
                   IN IF 1 <= N /\ N <= k
                      THEN result.finalOutput = settled[NthFulfilled(N)].value.content
                      ELSE result.finalOutput = judgeText
    /\ (pc = "failed" /\ strategy = "competitive" /\ CallsFor({"judge"}) # {}) =>
          Len(responses) = Cardinality(Fulfilled)

C29_Witness ==
    /\ pc = "done" /\ strategy = "competitive"
    /\ Len(providerList) = 3
    /\ Rejected = {1}
    /\ result.responses[3].content = Verdict("1")
    /\ result.finalOutput = settled[2].value.content
    /\ result.finalOutput # result.responses[3].content

\* message m carries, behind its label, the unaltered output of call j
CarriesOutputOf(m, j) ==
    /\ m.role = "assistant"
    /\ m.provider = calls[j].agent
    /\ responses[j].provider = calls[j].agent
    /\ SubSeq(m.content, 1, 1) \in {<<"[">>, <<"[Step ">>}
    /\ m.content[4] = calls[j].agent
    /\ SubSeq(m.content, 6, Len(m.content)) = responses[j].content

\* C30: in Sequential and Collaborative the k-th agent call of a run receives the initial
\* user prompt followed by the labelled, unaltered outputs of calls 1..k-1 in the order of
\* those calls (the synthesis call receives the synthesis instruction as one more, last
\* message), and what a call received is a prefix of what every later call receives.
C30_ConversationIsAppendOnly ==
    strategy \in {"sequential", "collaborative"} =>
        /\ \A k \in DOMAIN calls :
              LET h == calls[k].history
                  synthesis == calls[k].purpose = "synthesis"
              IN /\ Len(h) = IF synthesis THEN k + 1 ELSE k
                 /\ h[1].role = "user" /\ h[1].content = UserContent(request)
                 /\ \A j \in 1..(k - 1) : CarriesOutputOf(h[j + 1], j)
                 /\ synthesis => h[k + 1] = SynthesisRequest(h[k + 1].id)
        /\ \A k, l \in DOMAIN calls :
              k < l => SubSeq(calls[l].history, 1, Len(calls[k].history)) = calls[k].history
        /\ \A k \in DOMAIN messages : \A l \in DOMAIN messages :
              k < l => messages[k].id < messages[l].id

C30_Witness ==
    /\ strategy = "collaborative" /\ pc = "collab_synth"
    /\ Len(providerList) = 3
    /\ Len(calls) = 6
    /\ Len(calls[6].history) = 7
    /\ calls[6].history[4].content =
          <<"[", "Reviewer", " - ", providerList[3], "]: ">> \o responses[3].content
    /\ ~HoldsApprovalPhrase(responses[3].content)

PhaseStarted(k) == k \in DOMAIN events /\ events[k].type = "strategy:phaseStarted"

\* event j completes the phase that event i started: it names the same phase, or it is
\* Collaborative's completion of the round (which carries the round, not a phase name)
PhaseCompletes(i, j) ==
    /\ i < j /\ j \in DOMAIN events
    /\ events[j].type = "strategy:phaseCompleted"
    /\ events[j].phase \in {events[i].phase, "round"}

\* C21: every successful run, of each of the four strategies, has emitted at least one
\* strategy:phaseStarted event, and every strategy:phaseStarted event is followed, before
\* the result is returned, by a strategy:phaseCompleted event for the same phase.
C21_PhasesStartAndComplete ==
    pc = "done" =>
        /\ \E k \in DOMAIN events : PhaseStarted(k)
        /\ \A i \in DOMAIN events :
              PhaseStarted(i) => \E j \in DOMAIN events : PhaseCompletes(i, j)

\* what the agent of call k was told about its place in the pipeline
ToldPosition(k) == calls[k].system

\* C31: in Sequential the agent at index 0 is told it is first, the agent at the last
\* index is told it is final and every other agent is told it is in the middle; the agent
\* whose output becomes finalOutput (the last one) is the one told it is final, for every
\* number of agents from one up.
C31_LastAgentIsToldFinal ==
    strategy = "sequential" =>
        /\ \A k \in DOMAIN calls :
              /\ calls[k].agent = providerList[k]
              /\ k = 1 => ToldPosition(k) = "first"
              /\ k = Len(providerList) => ToldPosition(k) = "final"
              /\ (k # 1 /\ k # Len(providerList)) => ToldPosition(k) = "middle"
        /\ pc = "done" =>
              /\ result.finalOutput = responses[Len(calls)].content
              /\ ToldPosition(Len(calls)) = "final"

\* the positions of the events the collecting loop emits for single agents
PerAgentEvents ==
    {k \in DOMAIN events : events[k].type \in {"provider:error", "provider:response"}}

ErrorEventsNaming(agent) ==
    {k \in DOMAIN events : events[k].type = "provider:error" /\ events[k].provider = agent}

\* C32: in the fan-out of Parallel and Competitive exactly one provider:error event names
\* each agent whose call failed and its response is absent from result.responses; no
\* provider:error event names an agent whose call succeeded; the per-agent events are
\* emitted in agent-list order after all calls have settled.
C32_FailedCallsAreReported ==
    FanOutStrategy =>
        /\ ~FanOutOver => PerAgentEvents = {}
        /\ pc \in {"par_fanout", "comp_fanout"} => PerAgentEvents = {}
        /\ pc \in {"par_merge", "comp_judge", "done", "failed"} =>
              /\ \A i \in DOMAIN providerList :
                    Cardinality(ErrorEventsNaming(providerList[i])) =
                        IF i \in Rejected THEN 1 ELSE 0
              /\ \A j, k \in PerAgentEvents :
                    j < k => ListPosition(events[j].provider) < ListPosition(events[k].provider)
        /\ pc = "done" =>
              \A i \in Rejected : \A k \in 1..Cardinality(Fulfilled) :
                  result.responses[k].provider # providerList[i]

\* a Parallel run that returned although its first and third agents failed in the fan-out
C32_Witness ==
    /\ strategy = "parallel" /\ pc = "done"
    /\ Rejected = {1, 3}
    /\ Cardinality(PerAgentEvents) = 3
    /\ Len(result.responses) = 2
    /\ ErrorEventsNaming(providerList[3]) # {}

\* the entries of the returned conversation that are the initial user prompt
PromptEntries ==
    {k \in DOMAIN result.conversation :
        /\ result.conversation[k].role = "user"
        /\ result.conversation[k].content = UserContent(request)}

\* C36: in the conversation of every OrchestrationResult each message occurs exactly
\* once: no two entries have the same id, and the initial user prompt appears exactly
\* once, for all four strategies and every pattern of fan-out successes.
C36_EachMessageOnce ==
    pc = "done" =>
        /\ \A j, k \in DOMAIN result.conversation :
              j # k => result.conversation[j].id # result.conversation[k].id
        /\ Cardinality(PromptEntries) = 1

----------------------------------------------------------------------------
(* MeetingRoom.runMeeting *)

\* the roles the agendas of the single meetings are drawn from
Roles == {"ceo", "cto", "qa_engineer"}

\* enum CompanyRole
CompanyRoles ==
    {"ceo", "cto", "lead_architect", "senior_developer", "frontend_developer",
     "backend_developer", "qa_engineer", "security_auditor", "devops_engineer",
     "seo_specialist", "marketing_strategist", "performance_engineer"}

\* ROLE_DEFINITIONS: title and default provider type of every role
getRoleDefinition(role) ==
    CASE role = "ceo" -> [title |-> "CEO / Project Manager", defaultProvider |-> "claude"]
      [] role = "cto" -> [title |-> "Chief Technology Officer", defaultProvider |-> "claude"]
      [] role = "lead_architect" -> [title |-> "Lead Architect", defaultProvider |-> "claude"]
      [] role = "senior_developer" -> [title |-> "Senior Developer", defaultProvider |-> "gpt"]
      [] role = "frontend_developer" ->
             [title |-> "Frontend Developer", defaultProvider |-> "gpt"]
      [] role = "backend_developer" -> [title |-> "Backend Developer", defaultProvider |-> "gpt"]
      [] role = "qa_engineer" -> [title |-> "QA Engineer", defaultProvider |-> "gemini"]
      [] role = "security_auditor" ->
             [title |-> "Security Auditor", defaultProvider |-> "gemini"]
      [] role = "devops_engineer" -> [title |-> "DevOps Engineer", defaultProvider |-> "gemini"]
      [] role = "seo_specialist" -> [title |-> "SEO Specialist", defaultProvider |-> "gpt"]
      [] role = "marketing_strategist" ->
             [title |-> "Marketing Strategist", defaultProvider |-> "claude"]
      [] OTHER -> [title |-> "Performance Engineer", defaultProvider |-> "gemini"]

\* BaseProvider.type of the provider registered under a name
ProviderTypeOf(name) ==
    IF name \in {"claude", "gpt", "gemini"} THEN name ELSE "custom"

\* assignments.get(role) of a role without assignment
NoProvider == ""

\* ProviderRegistry.has
has(reg, name) == \E i \in DOMAIN reg : reg[i] = name

\* the first registered provider of a type, in registration order
FirstOfType(reg, type) ==
    IF \E i \in DOMAIN reg : ProviderTypeOf(reg[i]) = type
    THEN reg[CHOOSE i \in DOMAIN reg :
                /\ ProviderTypeOf(reg[i]) = type
                /\ \A j \in DOMAIN reg : ProviderTypeOf(reg[j]) = type => i <= j]
    ELSE NoProvider

\* RoleManager.initializeDefaults: a role whose default type is not registered stays
\* without assignment
initializeDefaults(reg) ==
    [role \in CompanyRoles |-> FirstOfType(reg, getRoleDefinition(role).defaultProvider)]

\* mutant: the assignment made when the team was set up is used for every call
getProviderForRoleCached(role, asg, reg) ==
    IF initializeDefaults(reg)[role] # NoProvider THEN initializeDefaults(reg)[role]
    ELSE IF Len(reg) = 0 THEN Undefined
    ELSE reg[1]

\* RoleManager.getProviderForRole: the assigned name, else the first provider of the
\* role's default type, else the first provider; throws (Undefined) without providers
getProviderForRole(role, asg, reg) ==
    IF asg[role] # NoProvider THEN asg[role]
    ELSE IF FirstOfType(reg, getRoleDefinition(role).defaultProvider) # NoProvider
    THEN FirstOfType(reg, getRoleDefinition(role).defaultProvider)
    ELSE IF Len(reg) = 0 THEN Undefined
    ELSE reg[1]

\* lines 158-159 of executeRoleTurn and 253-254 of generateSummary: the message of the
\* error thrown while the agent of a role is looked up, "" when there is none
resolveError(role, asg, reg) ==
    IF getProviderForRole(role, asg, reg) = Undefined THEN "No providers available for role"
    ELSE IF ~has(reg, getProviderForRole(role, asg, reg)) THEN "Provider not found in registry"
    ELSE ""

RECURSIVE SeqsUpTo(_, _)
SeqsUpTo(S, n) ==
    IF n = 0 THEN {<<>>}
    ELSE LET shorter == SeqsUpTo(S, n - 1)
         IN shorter \cup {Append(q, x) : q \in shorter, x \in S}

Agendas ==
    {[title |-> "kickoff", participants |-> ps, leader |-> l, maxTurns |-> mt] :
        ps \in SeqsUpTo(Roles, MaxParticipants), l \in Roles, mt \in 0..MaxTurns}

\* agenda.participants.filter((r) => r !== agenda.leader)
otherParticipants(ag) == SelectSeq(ag.participants, LAMBDA r : r # ag.leader)

\* round < Math.ceil(agenda.maxTurns / agenda.participants.length): the quotient by an
\* empty list is Infinity for maxTurns > 0 and NaN for maxTurns = 0 (no number is < NaN)
roundInLimit(r, ag) ==
    LET n == Len(ag.participants)
    IN IF n = 0 THEN ag.maxTurns > 0
       ELSE r < (ag.maxTurns + n - 1) \div n

\* the round limit is Infinity
limitIsInfinite(ag) == Len(ag.participants) = 0 /\ ag.maxTurns > 0

\* mutant: the last turn of the agenda is not spoken
withinMaxTurnsStrict(tn, ag) == tn < ag.maxTurns

\* if (turnNumber > agenda.maxTurns) break, and if (turnNumber <= agenda.maxTurns)
withinMaxTurns(tn, ag) == tn <= ag.maxTurns

\* Lines 82-123 from the head of the inner loop at index p of round r to the next await:
\* a participant's turn, the leader's reply, the summary, or no await at all ("spin":
\* the rounds go on for ever without a call)
RECURSIVE NextStop(_, _, _, _)
NextStop(r, p, tn, ag) ==
    IF ~roundInLimit(r, ag) THEN [kind |-> "summary", round |-> r, pos |-> 0]
    ELSE IF p < Len(otherParticipants(ag)) /\ withinMaxTurns(tn, ag)
    THEN [kind |-> "turn", round |-> r, pos |-> p]
    ELSE IF withinMaxTurns(tn, ag) THEN [kind |-> "reply", round |-> r, pos |-> p]
    ELSE IF limitIsInfinite(ag) THEN [kind |-> "spin", round |-> r + 1, pos |-> 0]
    ELSE NextStop(r + 1, 0, tn, ag)

TurnTexts(role) == {<<"statement", "of", role>>}

\* What the sendMessages call of executeRoleTurn or generateSummary may return; in a
\* turn the agent may also answer one of the texts of agentTexts
TurnOutcomes(call) ==
    {[ok |-> FALSE, provider |-> call.agent, content |-> <<>>, tokensUsed |-> ZeroTokens]}
    \cup {[ok |-> TRUE, provider |-> call.agent, content |-> c, tokensUsed |-> t] :
             c \in TurnTexts(call.role)
                     \cup (IF call.purpose = "turn" THEN agentTexts ELSE {}),
             t \in TokenChoices}

\* the MeetingTurn executeRoleTurn returns, lines 170-178; providerName is the name
\* looked up before the call; timestamp is Date.now() when the call has returned (the
\* clock of the model shows the ordinal of the turn)
MeetingTurn(call, o) ==
    [turnNumber |-> call.turnNumber, role |-> call.role, providerName |-> call.agent,
     message |-> o.content, timestamp |-> call.turnNumber, tokensUsed |-> o.tokensUsed]

\* appendTurnToHistory
appendTurnToHistory(history, turn) ==
    Append(history,
           Msg(Len(history) + 1, "assistant",
               <<"[", getRoleDefinition(turn.role).title, " - ", turn.providerName, "]: ">>
               \o turn.message, turn.providerName))

----------------------------------------------------------------------------
(* DecisionTracker *)

\* MEETING_TO_STAGE[agenda.type] ?? SDLCStage.Discovery
MEETING_TO_STAGE(ag) ==
    IF "type" \notin DOMAIN ag THEN "discovery"
    ELSE CASE ag.type = "kickoff" -> "discovery"
           [] ag.type = "architecture_review" -> "architecture"
           [] ag.type = "sprint_planning" -> "implementation"
           [] ag.type \in {"code_review", "bug_triage"} -> "quality_assurance"
           [] ag.type = "seo_marketing_review" -> "seo_marketing"
           [] ag.type \in {"deployment_review", "retrospective"} -> "deployment"
           [] OTHER -> "discovery"

\* the markers of the three patterns, in lower case (the patterns have the i flag)
decisionPattern == {"decision:"}

rationalePattern == {"rationale:", "reason:", "because:", "why:"}

alternativesPattern ==
    {"alternative:", "alternatives:", "other option:", "other options:", "instead of:"}

NoMatch == [start |-> 0, end |-> 0, next |-> 0]

\* the last position of the line that position c is on: (.+?) stops before the first
\* newline, or at the end of the text
RECURSIVE LineEnd(_, _)
LineEnd(text, c) ==
    IF c >= Len(text) \/ text[c + 1] = "\n" THEN c ELSE LineEnd(text, c + 1)

\* the largest position in from..to that holds whitespace other than a newline, 0 if none
RECURSIVE LastBlank(_, _, _)
LastBlank(text, from, to) ==
    IF to < from THEN 0
    ELSE IF text[to] # "\n" THEN to
    ELSE LastBlank(text, from, to - 1)

\* marker \s* (.+?) (?:\n|$) tried with the marker at position p: \s* takes all the
\* whitespace it can and gives back as much as the group needs (one character that is
\* not a newline); start..end is the group, next the position after the match
MatchAt(text, p, markers) ==
    IF p > Len(text) \/ ToLower(text[p]) \notin markers THEN NoMatch
    ELSE LET q == SkipSpace(text, p + 1)
             c == IF q <= Len(text) THEN q ELSE LastBlank(text, p + 1, Len(text))
         IN IF c = 0 THEN NoMatch
            ELSE [start |-> c, end |-> LineEnd(text, c),
                  next |-> Min(LineEnd(text, c) + 2, Len(text) + 1)]

\* RegExp.exec from lastIndex and String.match: the leftmost match at or after from
RECURSIVE Exec(_, _, _)
Exec(text, from, markers) ==
    IF from > Len(text) THEN NoMatch
    ELSE IF MatchAt(text, from, markers) # NoMatch THEN MatchAt(text, from, markers)
    ELSE Exec(text, from + 1, markers)

\* String.prototype.trim
RECURSIVE trim(_)
trim(s) ==
    IF Len(s) = 0 THEN s
    ELSE IF IsSpace(s[1]) THEN trim(Tail(s))
    ELSE IF IsSpace(s[Len(s)]) THEN trim(SubSeq(s, 1, Len(s) - 1))
    ELSE s

\* s.split(/[,;]/): the pieces between the separators, empty ones included
RECURSIVE split(_, _)
split(s, piece) ==
    IF Len(s) = 0 THEN <<piece>>
    ELSE IF s[1] \in {",", ";"} THEN <<piece>> \o split(Tail(s), <<>>)
    ELSE split(Tail(s), Append(piece, s[1]))

\* mutant: the pieces are not trimmed
splitAlternativesUntrimmed(s) == SelectSeq(split(s, <<>>), LAMBDA a : a # <<>>)

\* .split(/[,;]/).map((a) => a.trim()).filter(Boolean)
splitAlternatives(s) ==
    LET pieces == split(s, <<>>)
        trimmed == [k \in DOMAIN pieces |-> trim(pieces[k])]
    IN SelectSeq(trimmed, LAMBDA a : a # <<>>)

\* DecisionTracker.parseDecisionsFromText, the while loop from lastIndex = from; nearby
\* is the text after the match (no text of the model has 500 characters)
RECURSIVE parseDecisionsFromText(_, _)
parseDecisionsFromText(text, from) ==
    LET match == Exec(text, from, decisionPattern)
    IN IF match = NoMatch THEN <<>>
       ELSE LET title == trim(SubSeq(text, match.start, match.end))
                nearby == SubSeq(text, match.next, Len(text))
                rationaleMatch == Exec(nearby, 1, rationalePattern)
                alternativesMatch == Exec(nearby, 1, alternativesPattern)
            IN <<[title |-> title,
                  description |-> title,
                  rationale |-> IF rationaleMatch = NoMatch THEN <<>>
                                ELSE trim(SubSeq(nearby, rationaleMatch.start,
                                                 rationaleMatch.end)),
                  alternatives |-> IF alternativesMatch = NoMatch THEN <<>>
                                   ELSE splitAlternatives(
                                            SubSeq(nearby, alternativesMatch.start,
                                                   alternativesMatch.end))]>>
               \o parseDecisionsFromText(text, match.next)

\* mutant: every decision is put down to the leader of the meeting
DecisionsOfTurnByLeader(meetingId, turn, stage) ==
    LET extracted == parseDecisionsFromText(turn.message, 1)
    IN [k \in DOMAIN extracted |->
           [meetingId |-> meetingId, stage |-> stage, title |-> extracted[k].title,
            description |-> extracted[k].description,
            rationale |-> extracted[k].rationale,
            alternatives |-> extracted[k].alternatives,
            madeBy |-> agenda.leader, timestamp |-> turn.timestamp]]

\* the decisions of one turn, lines 46-61 of extractDecisions
DecisionsOfTurn(meetingId, turn, stage) ==
    LET extracted == parseDecisionsFromText(turn.message, 1)
    IN [k \in DOMAIN extracted |->
           [meetingId |-> meetingId, stage |-> stage, title |-> extracted[k].title,
            description |-> extracted[k].description,
            rationale |-> extracted[k].rationale,
            alternatives |-> extracted[k].alternatives,
            madeBy |-> turn.role, timestamp |-> turn.timestamp]]

RECURSIVE DecisionsFrom(_, _, _, _)
DecisionsFrom(meetingId, ts, k, stage) ==
    IF k > Len(ts) THEN <<>>
    ELSE DecisionsOfTurn(meetingId, ts[k], stage) \o DecisionsFrom(meetingId, ts, k + 1, stage)

\* DecisionTracker.extractDecisions: the decisions of all turns, in turn order
extractDecisions(meetingId, ts, ag) == DecisionsFrom(meetingId, ts, 1, MEETING_TO_STAGE(ag))

MeetingCall(role, purpose, tn, history) ==
    [agent |-> getProviderForRole(role, assignments, registry), role |-> role,
     purpose |-> purpose, turnNumber |-> tn, history |-> history]

\* the call the meeting is suspended on
AwaitedCall == mcalls[Len(mcalls)]

\* what a meeting leaves alone
sinputs == <<svars, fvars, pvars>>

minputs == <<agenda, registry, assignments, agentTexts>>

\* new MeetingError(meetingId, message), types/index.ts
MeetingError(meetingId, message) ==
    [name |-> "MeetingError", meetingId |-> meetingId,
     message |-> <<"[Meeting:", meetingId, "] ", message>>]

\* mutant: a failed call ends the meeting with the turns recorded so far
MeetingFailsWithPartialResult ==
    /\ mpc' = "completed"
    /\ meetingError' = MeetingError("m1", "AgentCallFailed")
    /\ meetingResult' = [kind |-> "result", id |-> "m1", agenda |-> agenda,
                         turns |-> turns, decisions |-> decisions, summary |-> <<>>,
                         totalTokenUsage |-> totalTokens]
    /\ mevents' = Append(mevents, Event("meeting:completed", "", ""))
    /\ UNCHANGED <<mround, rpos, turnNumber, turns, conversationHistory, totalTokens, mcalls,
                   trackers>>

\* catch (err) { throw new MeetingError(meetingId, message) }, lines 143-147, for a
\* rejected agent call
MeetingFails ==
    /\ mpc' = "failed"
    /\ meetingError' = MeetingError("m1", "AgentCallFailed")
    /\ UNCHANGED <<mround, rpos, turnNumber, turns, conversationHistory, totalTokens, mcalls,
                   mevents, meetingResult, trackers>>

\* the next call of the meeting: the agent of the role is looked up, then called; a
\* failed lookup is caught like a failed call
CallRole(role, purpose, tn, history, at) ==
    IF resolveError(role, assignments, registry) # ""
    THEN /\ mpc' = "failed"
         /\ meetingError' = MeetingError("m1", resolveError(role, assignments, registry))
         /\ UNCHANGED mcalls
    ELSE /\ mpc' = at
         /\ mcalls' = Append(mcalls, MeetingCall(role, purpose, tn, history))
         /\ UNCHANGED meetingError

\* generateSummary's request, lines 256-271
SummaryRequest(history) ==
    Append(history, Msg(Len(history) + 1, "user",
                        <<"Please summarize this meeting concisely:">>, ""))

\* the code from the loop position (r, p) to the next await, with the turn just recorded
Continue(r, p, tn, history) ==
    LET stop == NextStop(r, p, tn, agenda)
    IN /\ mround' = stop.round
       /\ rpos' = stop.pos
       /\ turnNumber' = tn
       /\ UNCHANGED managerDecisions
       /\ IF stop.kind = "summary"
          THEN /\ decisions' = extractDecisions("m1", turns', agenda)
               /\ roomDecisions' = roomDecisions \o decisions'
          ELSE UNCHANGED <<decisions, roomDecisions>>
       /\ CASE stop.kind = "turn" ->
                 CallRole(otherParticipants(agenda)[stop.pos + 1], "turn", tn, history,
                          "roundRobin")
            [] stop.kind = "reply" ->
                 CallRole(agenda.leader, "turn", tn, history, "leaderReplies")
            [] stop.kind = "summary" ->
                 CallRole(agenda.leader, "summary", 0, SummaryRequest(history),
                          "summarizing")
            [] OTHER ->
                 /\ mpc' = "spinning"
                 /\ UNCHANGED <<mcalls, meetingError>>

\* buildMeetingContext: the title and, when the agenda has one, the context
buildMeetingContext(ag) ==
    <<"MEETING: ", ag.title>>
    \o (IF "context" \in DOMAIN ag /\ ag.context # <<>>
        THEN <<"## Additional Context">> \o ag.context
        ELSE <<>>)

\* lines 41-72: the meeting starts and the leader is called for turn 1
RunMeeting ==
    /\ mpc = "idle"
    /\ UNCHANGED <<sinputs, minputs, mround, rpos, turns, totalTokens, meetingResult,
                   trackers>>
    /\ mevents' = Append(mevents, Event("meeting:started", "", ""))
    /\ conversationHistory' = <<Msg(1, "user", buildMeetingContext(agenda), "")>>
    /\ turnNumber' = 1
    /\ CallRole(agenda.leader, "turn", 1, conversationHistory', "leaderOpens")

\* mutant: a returned turn is recorded without being published
RecordTurnUnpublished(o) ==
    LET turn == MeetingTurn(AwaitedCall, o)
    IN /\ turns' = Append(turns, turn)
       /\ totalTokens' = addTokens(totalTokens, turn.tokensUsed)
       /\ conversationHistory' = appendTurnToHistory(conversationHistory, turn)
       /\ mevents' = mevents

\* a returned turn is recorded: turns.push, addTokens, appendTurnToHistory, meeting:turn
RecordTurn(o) ==
    LET turn == MeetingTurn(AwaitedCall, o)
    IN /\ turns' = Append(turns, turn)
       /\ totalTokens' = addTokens(totalTokens, turn.tokensUsed)
       /\ conversationHistory' = appendTurnToHistory(conversationHistory, turn)
       /\ mevents' = Append(mevents, Event("meeting:turn", ToString(turn.turnNumber),
                                           turn.role))

\* lines 66-82: the leader's opening arrives; turnNumber = 2 and the rounds begin
LeaderOpensReturns ==
    /\ mpc = "leaderOpens"
    /\ UNCHANGED <<sinputs, minputs>>
    /\ \E o \in TurnOutcomes(AwaitedCall) :
          IF ~o.ok THEN MeetingFails
          ELSE /\ RecordTurn(o)
               /\ Continue(0, 0, 2, conversationHistory')
               /\ UNCHANGED meetingResult

\* lines 88-100: the turn of the participant at rpos arrives
ParticipantReturns ==
    /\ mpc = "roundRobin"
    /\ UNCHANGED <<sinputs, minputs>>
    /\ \E o \in TurnOutcomes(AwaitedCall) :
          IF ~o.ok THEN MeetingFails
          ELSE /\ RecordTurn(o)
               /\ Continue(mround, rpos + 1, turnNumber + 1, conversationHistory')
               /\ UNCHANGED meetingResult

\* lines 103-117: the leader's reply arrives, the next round begins
LeaderRepliesReturns ==
    /\ mpc = "leaderReplies"
    /\ UNCHANGED <<sinputs, minputs>>
    /\ \E o \in TurnOutcomes(AwaitedCall) :
          IF ~o.ok THEN MeetingFails
          ELSE /\ RecordTurn(o)
               /\ Continue(mround + 1, 0, turnNumber + 1, conversationHistory')
               /\ UNCHANGED meetingResult

\* mutant: the tokens of the summary call are added to the meeting's total
SummaryReturnsCounted ==
    /\ mpc = "summarizing"
    /\ UNCHANGED <<sinputs, minputs>>
    /\ \E o \in TurnOutcomes(AwaitedCall) :
          IF ~o.ok THEN MeetingFails
          ELSE /\ meetingResult' = [kind |-> "result", id |-> "m1", agenda |-> agenda,
                                    turns |-> turns, decisions |-> decisions,
                                    summary |-> o.content,
                                    totalTokenUsage |-> addTokens(totalTokens, o.tokensUsed)]
               /\ mevents' = Append(mevents, Event("meeting:completed", "", ""))
               /\ mpc' = "completed"
               /\ UNCHANGED <<mround, rpos, turnNumber, turns, conversationHistory,
                              totalTokens, mcalls, meetingError, trackers>>

\* lines 123-142: the summary arrives, the MeetingResult is returned
SummaryReturns ==
    /\ mpc = "summarizing"
    /\ UNCHANGED <<sinputs, minputs>>
    /\ \E o \in TurnOutcomes(AwaitedCall) :
          IF ~o.ok THEN MeetingFails
          ELSE /\ meetingResult' = [kind |-> "result", id |-> "m1", agenda |-> agenda,
                                    turns |-> turns, decisions |-> decisions,
                                    summary |-> o.content,
                                    totalTokenUsage |-> totalTokens]
               /\ mevents' = Append(mevents, Event("meeting:completed", "", ""))
               /\ mpc' = "completed"
               /\ UNCHANGED <<mround, rpos, turnNumber, turns, conversationHistory,
                              totalTokens, mcalls, meetingError, trackers>>

\* the for loop of line 82 with no call left and no limit: round++ for ever
Spin ==
    /\ mpc = "spinning"
    /\ mround' = Min(mround + 1, MaxCounter)
    /\ UNCHANGED <<sinputs, minputs, mpc, rpos, turnNumber, turns, conversationHistory,
                   totalTokens, mcalls, mevents, meetingResult, meetingError, trackers>>

\* the providers a configuration may register, in registration order
RegistryNames == <<"claude", "gemini">>

\* ProviderFactory.initializeFromConfig: the providers with an API key, in the order
\* claude, gpt, gemini
Registries ==
    {SelectSeq(RegistryNames, LAMBDA n : n \in S) :
        S \in SUBSET {RegistryNames[i] : i \in DOMAIN RegistryNames}}

InitMeeting ==
    /\ strategy = "none"
    /\ providerList = <<>>
    /\ config = [maxRounds |-> 0]
    /\ request = [prompt |-> "", context |-> ""]
    /\ pc = "off"
    /\ round = 0
    /\ idx = 0
    /\ roles = <<>>
    /\ responses = <<>>
    /\ messages = <<>>
    /\ settled = <<>>
    /\ inflight = {}
    /\ calls = <<>>
    /\ events = <<>>
    /\ result = NoResult
    /\ error = ""
    /\ nextId = 1
    /\ consumed = ZeroTokens
    /\ completionOrder = <<>>
    /\ agenda \in Agendas
    /\ mpc = "idle"
    /\ mround = 0
    /\ rpos = 0
    /\ turnNumber = 0
    /\ turns = <<>>
    /\ conversationHistory = <<>>
    /\ totalTokens = ZeroTokens
    /\ mcalls = <<>>
    /\ mevents = <<>>
    /\ meetingResult = NoResult
    /\ meetingError = NoError
    /\ registry \in Registries
    /\ assignments = initializeDefaults(registry)
    /\ session = Null
    /\ nextSessionId = 1
    /\ sessionEvents = <<>>
    /\ stopMark = NoMark
    /\ agentTexts = {}
    /\ NoDecisions
    /\ PipelineOff

NextMeeting ==
    \/ RunMeeting
    \/ LeaderOpensReturns
    \/ ParticipantReturns
    \/ LeaderRepliesReturns
    \/ SummaryReturns
    \/ Spin

\* every agent call returns and the synchronous code runs on
SpecMeeting == InitMeeting /\ [][NextMeeting]_vars /\ WF_vars(NextMeeting)

----------------------------------------------------------------------------
(* A meeting whose leader may state decisions *)

\* the lines a turn is made of
DecisionLines ==
    {<<"DECISION:", " ", "Use", " ", "Postgres">>,
     <<"Rationale:", " ", "JSONB", " ", "support">>,
     <<"Alternatives:", " ", "MySQL", ",", " ", "MongoDB">>,
     <<"we", " ", "agree">>,
     <<"decision:", "Use", " ", "Redis", " ">>,
     <<"Because:", " ", "speed">>,
     <<"Instead of:", " ", "Kafka", ";", "NATS", ",">>,
     <<"DECISION:", " ">>,
     <<>>}

\* lines.join('\n')
RECURSIVE JoinLines(_)
JoinLines(ls) ==
    IF Len(ls) = 0 THEN <<>>
    ELSE IF Len(ls) = 1 THEN ls[1]
    ELSE ls[1] \o <<"\n">> \o JoinLines(Tail(ls))

\* the texts of one to MaxLines lines
DecisionTexts == {JoinLines(ls) : ls \in SeqsUpTo(DecisionLines, MaxLines) \ {<<>>}}

\* a kickoff of one turn: the leader speaks, then the summary is asked for
DecisionAgenda ==
    [title |-> "kickoff", participants |-> <<"ceo", "cto">>, leader |-> "ceo", maxTurns |-> 1]

\* enum MeetingType
MeetingTypes ==
    {"kickoff", "architecture_review", "sprint_planning", "code_review", "bug_triage",
     "seo_marketing_review", "deployment_review", "retrospective"}

\* the meetings of every type, of three turns: the leader, the other participant, the
\* leader's reply
TypedAgendas ==
    {[title |-> "review", type |-> t, participants |-> <<"ceo", "cto">>, leader |-> "ceo",
      maxTurns |-> 3] : t \in MeetingTypes}

\* what an agent may say beside its statement: in the kickoff of one turn any one of
\* the texts, in the longer meetings a text that states two decisions
AgendaTexts(ag) ==
    IF ag = DecisionAgenda THEN {{t} : t \in DecisionTexts}
    ELSE {{<<"DECISION:", " ", "Use", " ", "Postgres", "\n",
             "decision:", "Use", " ", "Redis", " ">>}}

InitDecisions ==
    /\ strategy = "none"
    /\ providerList = <<>>
    /\ config = [maxRounds |-> 0]
    /\ request = [prompt |-> "", context |-> ""]
    /\ pc = "off"
    /\ round = 0
    /\ idx = 0
    /\ roles = <<>>
    /\ responses = <<>>
    /\ messages = <<>>
    /\ settled = <<>>
    /\ inflight = {}
    /\ calls = <<>>
    /\ events = <<>>
    /\ result = NoResult
    /\ error = ""
    /\ nextId = 1
    /\ consumed = ZeroTokens
    /\ completionOrder = <<>>
    /\ agenda \in {DecisionAgenda} \cup TypedAgendas
    /\ mpc = "idle"
    /\ mround = 0
    /\ rpos = 0
    /\ turnNumber = 0
    /\ turns = <<>>
    /\ conversationHistory = <<>>
    /\ totalTokens = ZeroTokens
    /\ mcalls = <<>>
    /\ mevents = <<>>
    /\ meetingResult = NoResult
    /\ meetingError = NoError
    /\ registry = <<"claude">>
    /\ assignments = initializeDefaults(registry)
    /\ session = Null
    /\ nextSessionId = 1
    /\ sessionEvents = <<>>
    /\ stopMark = NoMark
    /\ agentTexts \in AgendaTexts(agenda)
    /\ NoDecisions
    /\ PipelineOff

NextDecisions ==
    \/ RunMeeting
    \/ LeaderOpensReturns
    \/ ParticipantReturns
    \/ LeaderRepliesReturns
    \/ SummaryReturns

SpecDecisions == InitDecisions /\ [][NextDecisions]_vars

\* CompanyManager.getDecisions, reached from Orchestrator.getDecisions: the allDecisions
\* of CompanyManager's own tracker
getDecisions == managerDecisions

----------------------------------------------------------------------------
(* Properties of the decisions of a meeting, checked under SpecDecisions *)

\* the turn of three lines: a decision, its rationale, its alternatives
PostgresTurn ==
    <<"DECISION:", " ", "Use", " ", "Postgres", "\n",
      "Rationale:", " ", "JSONB", " ", "support", "\n",
      "Alternatives:", " ", "MySQL", ",", " ", "MongoDB">>

\* no word of the text is the DECISION marker, in any letter case
HasNoDecisionMarker(text) == \A p \in DOMAIN text : ToLower(text[p]) # "decision:"

\* the decisions have been extracted from the turns of the meeting
Extracted == mpc \in {"summarizing", "completed"}

\* C26: extraction from a turn whose text is the lines "DECISION: Use Postgres",
\* "Rationale: JSONB support", "Alternatives: MySQL, MongoDB" gives exactly one decision,
\* with title "Use Postgres", rationale "JSONB support" and the alternatives MySQL,
\* MongoDB in that order; a turn without a DECISION marker gives no decision.
C26_DecisionExtraction ==
    (Extracted /\ Len(turns) = 1) =>
        /\ turns[1].message = PostgresTurn =>
              /\ Len(decisions) = 1
              /\ decisions[1].title = <<"Use", " ", "Postgres">>
              /\ decisions[1].rationale = <<"JSONB", " ", "support">>
              /\ decisions[1].alternatives = << <<"MySQL">>, <<"MongoDB">> >>
              /\ decisions[1].madeBy = turns[1].role
        /\ HasNoDecisionMarker(turns[1].message) => decisions = <<>>

C26_Witness ==
    /\ mpc = "completed"
    /\ turns[1].message = PostgresTurn
    /\ Len(meetingResult.decisions) = 1
    /\ meetingResult.decisions[1].alternatives = << <<"MySQL">>, <<"MongoDB">> >>

\* C23: after a meeting that completed, every decision of the returned MeetingResult is
\* in the list getDecisions() returns.
C23_GetDecisionsHasAll ==
    mpc = "completed" =>
        \A i \in DOMAIN meetingResult.decisions :
            \E j \in DOMAIN getDecisions : getDecisions[j] = meetingResult.decisions[i]

\* C24: when a meeting has completed, for every decision extracted from it a
\* meeting:decision event was published before the meeting:completed event.
C24_DecisionEventsPrecedeCompletion ==
    mpc = "completed" =>
        \A i \in DOMAIN meetingResult.decisions :
            \E k, c \in DOMAIN mevents :
                /\ k < c
                /\ mevents[k].type = "meeting:decision"
                /\ mevents[c].type = "meeting:completed"

\* the fixed table from meeting type to stage
StageOfType ==
    [kickoff |-> "discovery", architecture_review |-> "architecture",
     sprint_planning |-> "implementation", code_review |-> "quality_assurance",
     bug_triage |-> "quality_assurance", seo_marketing_review |-> "seo_marketing",
     deployment_review |-> "deployment", retrospective |-> "deployment"]

\* the words of title stand in text from position p on
OccursAt(text, title, p) ==
    /\ p + Len(title) - 1 <= Len(text)
    /\ \A i \in DOMAIN title : text[p + i - 1] = title[i]

\* the turn a decision was read from: the one that carries its timestamp
TurnOfDecision(d) == CHOOSE k \in DOMAIN turns : turns[k].timestamp = decisions[d].timestamp

\* C35: every decision extracted from a meeting carries the stage the fixed table gives
\* for the agenda's type, the role of the turn whose text held its marker, that turn's
\* timestamp and the meeting's id; the decisions are listed in turn order and, within one
\* turn, in the order of their markers in the text.
C35_DecisionsAreStamped ==
    Extracted =>
        /\ \A d \in DOMAIN decisions :
              /\ decisions[d].meetingId = "m1"
              /\ "type" \in DOMAIN agenda => decisions[d].stage = StageOfType[agenda.type]
              /\ \E k \in DOMAIN turns : turns[k].timestamp = decisions[d].timestamp
              /\ decisions[d].madeBy = turns[TurnOfDecision(d)].role
              /\ \E p \in DOMAIN turns[TurnOfDecision(d)].message :
                    /\ ToLower(turns[TurnOfDecision(d)].message[p]) = "decision:"
                    /\ \E q \in (p + 1)..(Len(turns[TurnOfDecision(d)].message) + 1) :
                          OccursAt(turns[TurnOfDecision(d)].message, decisions[d].title, q)
        /\ \A d, e \in DOMAIN decisions :
              d < e =>
                 /\ TurnOfDecision(d) <= TurnOfDecision(e)
                 /\ TurnOfDecision(d) = TurnOfDecision(e) =>
                       LET text == turns[TurnOfDecision(d)].message
                       IN \E p, q \in 1..(Len(text) + 1) :
                             /\ p < q
                             /\ OccursAt(text, decisions[d].title, p)
                             /\ OccursAt(text, decisions[e].title, q)

\* a sprint planning whose second and third turns each state two decisions
C35_Witness ==
    /\ mpc = "completed"
    /\ agenda \in TypedAgendas
    /\ agenda.type = "sprint_planning"
    /\ Len(meetingResult.decisions) = 4
    /\ meetingResult.decisions[1].stage = "implementation"
    /\ meetingResult.decisions[1].madeBy = "cto"
    /\ meetingResult.decisions[1].title = <<"Use", " ", "Postgres">>
    /\ meetingResult.decisions[2].title = <<"Use", " ", "Redis">>
    /\ meetingResult.decisions[2].timestamp = 2
    /\ meetingResult.decisions[3].madeBy = "ceo"
    /\ meetingResult.decisions[3].timestamp = 3

----------------------------------------------------------------------------
(* CompanyManager.runProject *)

\* STAGE_CONFIGS, RoleManager.ts
STAGE_CONFIGS ==
    <<[stage |-> "discovery", name |-> "Discovery & Planning",
       description |-> "Analyze project requirements, set vision, evaluate feasibility",
       leadRoles |-> <<"ceo", "cto">>,
       supportingRoles |-> <<"lead_architect", "senior_developer", "qa_engineer">>,
       meetingType |-> "kickoff"],
      [stage |-> "architecture", name |-> "Architecture & Design",
       description |-> "Design system components, data models, APIs, choose algorithms",
       leadRoles |-> <<"cto", "lead_architect">>,
       supportingRoles |-> <<"senior_developer", "backend_developer", "security_auditor">>,
       meetingType |-> "architecture_review"],
      [stage |-> "implementation", name |-> "Implementation",
       description |-> "Write production code based on the architecture",
       leadRoles |-> <<"senior_developer", "frontend_developer", "backend_developer">>,
       supportingRoles |-> <<"lead_architect", "cto">>,
       meetingType |-> "sprint_planning"],
      [stage |-> "quality_assurance", name |-> "Quality Assurance",
       description |-> "Test, review security, check performance, fix bugs",
       leadRoles |-> <<"qa_engineer", "security_auditor">>,
       supportingRoles |-> <<"performance_engineer", "senior_developer">>,
       meetingType |-> "code_review"],
      [stage |-> "seo_marketing", name |-> "SEO & Marketing",
       description |-> "Optimize for search engines, plan marketing strategy",
       leadRoles |-> <<"seo_specialist", "marketing_strategist">>,
       supportingRoles |-> <<"frontend_developer", "ceo">>,
       meetingType |-> "seo_marketing_review"],
      [stage |-> "deployment", name |-> "Deployment & Launch",
       description |-> "Plan infrastructure, CI/CD, monitoring, and launch",
       leadRoles |-> <<"devops_engineer">>,
       supportingRoles |-> <<"cto", "ceo", "security_auditor">>,
       meetingType |-> "deployment_review"]>>

\* the agenda of a stage, lines 205-217 (the dash of the title is an em dash there)
StageAgenda(stageConfig, ctx) ==
    [title |-> stageConfig.name \o " - " \o project.name,
     description |-> <<stageConfig.description, "\n\nProject: ", project.name, "\n">>
                     \o project.description,
     type |-> stageConfig.meetingType,
     participants |-> stageConfig.leadRoles \o stageConfig.supportingRoles,
     leader |-> stageConfig.leadRoles[1],
     maxTurns |-> project.meetingMaxTurns,
     context |-> ctx]

\* mutant: only the latest summary is handed on
accumulateLatestOnly(ctx, name, summary) ==
    project.description \o <<"\n\n## ", name, " Results\n">> \o summary

\* accumulatedContext += `\n\n## ${stageConfig.name} Results\n${meetingResult.summary}`
accumulate(ctx, name, summary) == ctx \o <<"\n\n## ", name, " Results\n">> \o summary

\* mutant: the error names the stage the pipeline began with
PipelineErrorOfFirstStage(stage, message) ==
    [name |-> "PipelineError", stage |-> "discovery",
     message |-> <<"[Pipeline:", "discovery", "] ">> \o message]

\* new PipelineError(stage, message), types/index.ts
PipelineError(stage, message) ==
    [name |-> "PipelineError", stage |-> stage,
     message |-> <<"[Pipeline:", stage, "] ">> \o message]

\* stageResults.flatMap((sr) => sr.meeting.decisions)
RECURSIVE flatMapDecisions(_, _)
flatMapDecisions(srs, k) ==
    IF k > Len(srs) THEN <<>>
    ELSE srs[k].meeting.decisions \o flatMapDecisions(srs, k + 1)

\* totalTokens = addTokens(totalTokens, meetingResult.totalTokenUsage), stage by stage
RECURSIVE stageTokens(_, _)
stageTokens(srs, k) ==
    IF k = 0 THEN ZeroTokens
    ELSE addTokens(stageTokens(srs, k - 1), srs[k].meeting.totalTokenUsage)

\* lines 196-220 and MeetingRoom.runMeeting up to its first await, for stage k: the stage
\* is announced, its agenda is built and its meeting starts with a call of the leader
StartStage(k, ctx, evs) ==
    LET ag == StageAgenda(STAGE_CONFIGS[k], ctx)
    IN /\ stageIndex' = k
       /\ agenda' = ag
       /\ mevents' = evs \o <<Event("pipeline:stageStarted", STAGE_CONFIGS[k].stage, ""),
                              Event("meeting:started", "", "")>>
       /\ conversationHistory' = <<Msg(1, "user", buildMeetingContext(ag), "")>>
       /\ turns' = <<>>
       /\ totalTokens' = ZeroTokens
       /\ mround' = 0
       /\ rpos' = 0
       /\ turnNumber' = 1
       /\ decisions' = <<>>
       /\ meetingResult' = NoResult
       /\ CallRole(ag.leader, "turn", 1, conversationHistory', "leaderOpens")

\* lines 180-220: the pipeline starts and the meeting of the first stage is begun
RunProject ==
    /\ ppc = "idle" /\ mpc = "idle"
    /\ ppc' = "running"
    /\ accumulatedContext' = project.description
    /\ stageResults' = <<>>
    /\ StartStage(1, project.description, Append(mevents, Event("pipeline:started", "", "")))
    /\ UNCHANGED <<svars, fvars, project, pipelineResult, pipelineError, registry,
                   assignments, agentTexts, roomDecisions, managerDecisions>>

\* lines 220-274: the meeting of the stage has returned or thrown; the stage result is
\* recorded and the next stage begun, or the PipelineResult is returned; a failed meeting
\* is rethrown as PipelineError
StageMeetingReturns ==
    /\ ppc = "running" /\ mpc \in {"completed", "failed"}
    /\ UNCHANGED <<svars, fvars, project, registry, assignments, agentTexts,
                   roomDecisions, managerDecisions>>
    /\ IF mpc = "failed"
       THEN /\ ppc' = "failed"
            /\ pipelineError' = PipelineError(STAGE_CONFIGS[stageIndex].stage,
                                              meetingError.message)
            /\ UNCHANGED <<stageIndex, stageResults, accumulatedContext, pipelineResult,
                           agenda, mpc, mround, rpos, turnNumber, turns, conversationHistory,
                           totalTokens, mcalls, mevents, meetingResult, meetingError,
                           decisions>>
       ELSE LET stageConfig == STAGE_CONFIGS[stageIndex]
                stageResult == [stage |-> stageConfig.stage, meeting |-> meetingResult,
                                generatedFiles |-> <<>>]
                ctx == accumulate(accumulatedContext, stageConfig.name, meetingResult.summary)
                evs == Append(mevents, Event("pipeline:stageCompleted", stageConfig.stage, ""))
            IN /\ stageResults' = Append(stageResults, stageResult)
               /\ accumulatedContext' = ctx
               /\ IF stageIndex < Len(STAGE_CONFIGS)
                  THEN /\ StartStage(stageIndex + 1, ctx, evs)
                       /\ UNCHANGED <<ppc, pipelineResult, pipelineError>>
                  ELSE /\ ppc' = "done"
                       /\ pipelineResult' =
                             [kind |-> "result", projectName |-> project.name,
                              projectDescription |-> project.description,
                              stages |-> stageResults',
                              decisions |-> flatMapDecisions(stageResults', 1),
                              generatedFiles |-> <<>>,
                              totalTokenUsage |->
                                  stageTokens(stageResults', Len(stageResults'))]
                       /\ mevents' = Append(evs, Event("pipeline:completed", "", ""))
                       /\ UNCHANGED <<pipelineError, stageIndex, agenda, mpc, mround, rpos,
                                      turnNumber, turns, conversationHistory, totalTokens,
                                      mcalls, meetingResult, meetingError, decisions>>

\* the arguments of runProject and the meetingMaxTurns of the configuration
Projects ==
    {[name |-> "shop", description |-> <<"an", " ", "online", " ", "shop">>,
      meetingMaxTurns |-> mt] : mt \in {1, 2}}

\* what the agents may say in the stage meetings beside their statement: a decision in
\* the meetings of one turn, nothing in those of two
PipelineTexts(proj) ==
    IF proj.meetingMaxTurns = 1 THEN {<<"DECISION:", " ", "Use", " ", "Postgres">>} ELSE {}

\* the providers registered when the project is run
PipelineRegistries == {<<>>, <<"claude", "gemini">>}

InitPipeline ==
    /\ strategy = "none"
    /\ providerList = <<>>
    /\ config = [maxRounds |-> 0]
    /\ request = [prompt |-> "", context |-> ""]
    /\ pc = "off"
    /\ round = 0
    /\ idx = 0
    /\ roles = <<>>
    /\ responses = <<>>
    /\ messages = <<>>
    /\ settled = <<>>
    /\ inflight = {}
    /\ calls = <<>>
    /\ events = <<>>
    /\ result = NoResult
    /\ error = ""
    /\ nextId = 1
    /\ consumed = ZeroTokens
    /\ completionOrder = <<>>
    /\ agenda = <<>>
    /\ mpc = "idle"
    /\ mround = 0
    /\ rpos = 0
    /\ turnNumber = 0
    /\ turns = <<>>
    /\ conversationHistory = <<>>
    /\ totalTokens = ZeroTokens
    /\ mcalls = <<>>
    /\ mevents = <<>>
    /\ meetingResult = NoResult
    /\ meetingError = NoError
    /\ registry \in PipelineRegistries
    /\ assignments = initializeDefaults(registry)
    /\ session = Null
    /\ nextSessionId = 1
    /\ sessionEvents = <<>>
    /\ stopMark = NoMark
    /\ project \in Projects
    /\ agentTexts = PipelineTexts(project)
    /\ NoDecisions
    /\ ppc = "idle"
    /\ stageIndex = 0
    /\ stageResults = <<>>
    /\ accumulatedContext = <<>>
    /\ pipelineResult = NoResult
    /\ pipelineError = NoError

\* the stage meetings have one or two turns: the leader's opening, a participant's
\* turn, then the summary
NextPipeline ==
    \/ RunProject
    \/ LeaderOpensReturns
    \/ ParticipantReturns
    \/ SummaryReturns
    \/ StageMeetingReturns

SpecPipeline == InitPipeline /\ [][NextPipeline]_vars

----------------------------------------------------------------------------
(* Properties of the pipeline, checked under SpecPipeline *)

\* the six stages in their order, and the first lead role of each
StageOrder ==
    <<"discovery", "architecture", "implementation", "quality_assurance", "seo_marketing",
      "deployment">>

FirstLeads ==
    <<"ceo", "cto", "senior_developer", "qa_engineer", "seo_specialist", "devops_engineer">>

\* the positions of the events of a type, in the order of the stream
EventsOfType(type) == {k \in DOMAIN mevents : mevents[k].type = type}

\* the project description followed by the labelled summaries of the stages before k
RECURSIVE ContextOfStage(_)
ContextOfStage(k) ==
    IF k = 1 THEN project.description
    ELSE ContextOfStage(k - 1)
         \o <<"\n\n## ", STAGE_CONFIGS[k - 1].name, " Results\n">>
         \o stageResults[k - 1].meeting.summary

\* the agenda stage k was or is run with
AgendaOfStage(k) ==
    IF k <= Len(stageResults) THEN stageResults[k].meeting.agenda ELSE agenda

\* C22: runProject runs the stages in the order discovery, architecture, implementation,
\* quality assurance, SEO/marketing, deployment, with one meeting per stage, led by the
\* stage's first lead role; the meeting of a stage starts only after the meeting of the
\* stage before has completed; the context of stage k is the project description
\* followed by the summaries of stages 1..k-1 in stage order; and the run that returns
\* has run all six.
C22_StagesInOrder ==
    ppc \in {"running", "done", "failed"} =>
        /\ stageIndex \in 1..6
        /\ Len(stageResults) \in {stageIndex - 1, stageIndex}
        /\ Cardinality(EventsOfType("pipeline:stageStarted")) = stageIndex
        /\ Cardinality(EventsOfType("meeting:started")) = stageIndex
        /\ \A k \in 1..stageIndex :
              /\ \E e \in EventsOfType("pipeline:stageStarted") :
                    /\ mevents[e].phase = StageOrder[k]
                    /\ Cardinality({d \in EventsOfType("pipeline:stageStarted") : d <= e}) = k
              /\ AgendaOfStage(k).leader = FirstLeads[k]
              /\ AgendaOfStage(k).leader = STAGE_CONFIGS[k].leadRoles[1]
              /\ AgendaOfStage(k).context = ContextOfStage(k)
              /\ k <= Len(stageResults) =>
                    /\ stageResults[k].stage = StageOrder[k]
                    /\ stageResults[k].meeting.turns[1].role = FirstLeads[k]
        /\ \A i, j \in EventsOfType("meeting:started") :
              i < j => \E c \in EventsOfType("meeting:completed") : i < c /\ c < j
        /\ ppc = "done" =>
              /\ Len(stageResults) = 6
              /\ pipelineResult.stages = stageResults
              /\ Cardinality(EventsOfType("meeting:completed")) = 6

C22_Witness ==
    /\ ppc = "done"
    /\ Len(stageResults) = 6
    /\ project.meetingMaxTurns = 2
    /\ stageResults[6].meeting.agenda.leader = "devops_engineer"
    /\ stageResults[6].meeting.agenda.context = ContextOfStage(6)
    /\ Len(stageResults[6].meeting.agenda.context) > Len(project.description) + 5 * 3

TokenFields == {"promptTokens", "completionTokens", "totalTokens"}

\* the sum of one field of tokensUsed over the first k turns
RECURSIVE TurnSum(_, _, _)
TurnSum(ts, f, k) == IF k = 0 THEN 0 ELSE TurnSum(ts, f, k - 1) + ts[k].tokensUsed[f]

\* the sum of one field of the meetings' totalTokenUsage over the first k stages
RECURSIVE StageSum(_, _, _)
StageSum(srs, f, k) ==
    IF k = 0 THEN 0 ELSE StageSum(srs, f, k - 1) + srs[k].meeting.totalTokenUsage[f]

TotalIsSumOfTurns(mr) ==
    \A f \in TokenFields : mr.totalTokenUsage[f] = TurnSum(mr.turns, f, Len(mr.turns))

\* C39: the totalTokenUsage of a MeetingResult is the element-wise sum of tokensUsed over
\* its turns, the tokens of the summary call (never zero here) not included; the
\* totalTokenUsage of a PipelineResult is the element-wise sum of the totalTokenUsage of
\* its stage meetings.
C39_TokenTotals ==
    /\ mpc = "completed" => TotalIsSumOfTurns(meetingResult)
    /\ \A s \in DOMAIN stageResults : TotalIsSumOfTurns(stageResults[s].meeting)
    /\ ppc = "done" =>
          /\ pipelineResult.stages = stageResults
          /\ \A f \in TokenFields :
                pipelineResult.totalTokenUsage[f] =
                    StageSum(pipelineResult.stages, f, Len(pipelineResult.stages))

\* a finished pipeline of two-turn meetings whose stages did not all cost the same
C39_Witness ==
    /\ ppc = "done"
    /\ project.meetingMaxTurns = 2
    /\ Len(pipelineResult.stages) = 6
    /\ pipelineResult.stages[1].meeting.totalTokenUsage.totalTokens = 10
    /\ pipelineResult.stages[2].meeting.totalTokenUsage.totalTokens = 14
    /\ pipelineResult.totalTokenUsage.totalTokens > 48

\* the position in the stream of the event of a type that names a stage (0: none)
StageEvent(type, stage) ==
    IF \E e \in EventsOfType(type) : mevents[e].phase = stage
    THEN CHOOSE e \in EventsOfType(type) : mevents[e].phase = stage
    ELSE 0

\* runProject has thrown after the meeting of stage stageIndex failed
StageFailure ==
    /\ mpc = "failed"
    /\ pipelineError.name = "PipelineError"
    /\ pipelineError.stage = StageOrder[stageIndex]
    /\ pipelineError.message = <<"[Pipeline:", StageOrder[stageIndex], "] ">>
                               \o meetingError.message
    /\ pipelineResult = NoResult
    /\ Len(stageResults) = stageIndex - 1
    /\ Cardinality(EventsOfType("pipeline:stageStarted")) = stageIndex
    /\ Cardinality(EventsOfType("meeting:started")) = stageIndex
    /\ Cardinality(EventsOfType("pipeline:stageCompleted")) = stageIndex - 1
    /\ EventsOfType("pipeline:completed") = {}
    /\ \A k \in 1..6 :
          /\ k > stageIndex => StageEvent("pipeline:stageStarted", StageOrder[k]) = 0
          /\ k >= stageIndex => StageEvent("pipeline:stageCompleted", StageOrder[k]) = 0
          /\ k < stageIndex =>
                /\ 0 < StageEvent("pipeline:stageStarted", StageOrder[k])
                /\ StageEvent("pipeline:stageStarted", StageOrder[k])
                      < StageEvent("pipeline:stageCompleted", StageOrder[k])
                /\ StageEvent("pipeline:stageCompleted", StageOrder[k])
                      < StageEvent("pipeline:stageStarted", StageOrder[k + 1])

\* C34: if the meeting of stage k fails, runProject fails with a PipelineError naming
\* stage k and returns no PipelineResult; no meeting is started and no
\* pipeline:stageStarted is emitted for a later stage, neither pipeline:stageCompleted
\* for stage k nor pipeline:completed is emitted, and every stage before k has emitted
\* pipeline:stageStarted followed by pipeline:stageCompleted.
C34_FailedStageEndsPipeline ==
    /\ [](ppc = "failed" => StageFailure)
    /\ [][(ppc = "running" /\ mpc = "failed") => (ppc' = "failed" /\ mevents' = mevents)]_vars
    /\ [][ppc = "failed" => UNCHANGED <<ppc, mevents, mcalls, pipelineResult>>]_vars

\* the pipeline failed in its third stage, on a rejected call of the second turn
C34_Witness ==
    /\ ppc = "failed"
    /\ stageIndex = 3
    /\ pipelineError.stage = "implementation"
    /\ Len(stageResults) = 2
    /\ Len(turns) = 1
    /\ meetingError.message[4] = "AgentCallFailed"

----------------------------------------------------------------------------
(* A meeting while the team is being reassigned *)

\* the names an assignRole request may carry: registered or not
RequestedNames == {"claude", "gemini", "gpt"}

\* RoleManager.getTeam, reached through CompanyManager.getTeam: a new object listing the
\* assignments of the moment (the order of the list is left out)
getTeam(asg) ==
    {[role |-> r, providerName |-> asg[r]] : r \in {x \in DOMAIN asg : asg[x] # NoProvider}}

\* mutant: the session holds the team by reference and follows every reassignment
AssignRoleSeenBySession ==
    /\ mpc # "off"
    /\ \E role \in Roles, providerName \in RequestedNames :
          IF ~has(registry, providerName)
          THEN UNCHANGED <<assignments, session>>
          ELSE /\ assignments' = [assignments EXCEPT ![role] = providerName]
               /\ session' = IF session = Null THEN session
                             ELSE [session EXCEPT !.team = getTeam(assignments')]
    /\ UNCHANGED <<svars, pvars, nextSessionId, sessionEvents, stopMark, agenda, registry,
                   agentTexts, mpc, mround, rpos, turnNumber, turns, conversationHistory,
                   totalTokens, mcalls, mevents, meetingResult, meetingError, trackers>>

\* RoleManager.assignRole, reached from Orchestrator.assignRole: an unregistered name
\* throws and leaves the assignments as they are
AssignRole ==
    /\ mpc # "off"
    /\ \E role \in Roles, providerName \in RequestedNames :
          IF ~has(registry, providerName)
          THEN UNCHANGED assignments
          ELSE assignments' = [assignments EXCEPT ![role] = providerName]
    /\ UNCHANGED <<sinputs, agenda, registry, agentTexts, mpc, mround, rpos, turnNumber,
                   turns, conversationHistory, totalTokens, mcalls, mevents, meetingResult,
                   meetingError, trackers>>

\* the agendas of the meetings run while roles are reassigned
TeamAgendas ==
    {[title |-> "kickoff", participants |-> ps, leader |-> "ceo", maxTurns |-> mt] :
        ps \in {<<>>, <<"ceo", "cto">>}, mt \in 0..MaxTurns}

InitReassign ==
    /\ strategy = "none"
    /\ providerList = <<>>
    /\ config = [maxRounds |-> 0]
    /\ request = [prompt |-> "", context |-> ""]
    /\ pc = "off"
    /\ round = 0
    /\ idx = 0
    /\ roles = <<>>
    /\ responses = <<>>
    /\ messages = <<>>
    /\ settled = <<>>
    /\ inflight = {}
    /\ calls = <<>>
    /\ events = <<>>
    /\ result = NoResult
    /\ error = ""
    /\ nextId = 1
    /\ consumed = ZeroTokens
    /\ completionOrder = <<>>
    /\ agenda \in TeamAgendas
    /\ mpc = "idle"
    /\ mround = 0
    /\ rpos = 0
    /\ turnNumber = 0
    /\ turns = <<>>
    /\ conversationHistory = <<>>
    /\ totalTokens = ZeroTokens
    /\ mcalls = <<>>
    /\ mevents = <<>>
    /\ meetingResult = NoResult
    /\ meetingError = NoError
    /\ registry \in Registries
    /\ assignments = initializeDefaults(registry)
    /\ session = Null
    /\ nextSessionId = 1
    /\ sessionEvents = <<>>
    /\ stopMark = NoMark
    /\ agentTexts = {}
    /\ NoDecisions
    /\ PipelineOff

NextReassign ==
    \/ RunMeeting
    \/ LeaderOpensReturns
    \/ ParticipantReturns
    \/ LeaderRepliesReturns
    \/ SummaryReturns
    \/ Spin
    \/ AssignRole

SpecReassign == InitReassign /\ [][NextReassign]_vars

----------------------------------------------------------------------------
(* A meeting while the set of agents changes *)

\* ProviderRegistry.unregister: the provider of that name, if registered, is removed;
\* the assignments of the RoleManager are left as they are
Unregister ==
    /\ mpc # "off"
    /\ \E name \in RequestedNames :
          registry' = SelectSeq(registry, LAMBDA n : n # name)
    /\ UNCHANGED <<sinputs, agenda, assignments, agentTexts, mpc, mround, rpos, turnNumber,
                   turns, conversationHistory, totalTokens, mcalls, mevents, meetingResult,
                   meetingError, trackers>>

\* Orchestrator.reinitialize: ProviderFactory.initializeFromConfig clears the registry
\* (a singleton) and registers the providers that have a key in newConfig;
\* RoleManager.initializeDefaults is not run again
Reinitialize ==
    /\ mpc # "off"
    /\ registry' \in Registries
    /\ UNCHANGED <<sinputs, agenda, assignments, agentTexts, mpc, mround, rpos, turnNumber,
                   turns, conversationHistory, totalTokens, mcalls, mevents, meetingResult,
                   meetingError, trackers>>

\* the agendas of the meetings run while the agents change: one or two turns
RosterAgendas ==
    {[title |-> "kickoff", participants |-> <<"ceo", "qa_engineer">>, leader |-> l,
      maxTurns |-> mt] : l \in {"ceo", "qa_engineer"}, mt \in {1, 2}}

InitRoster ==
    /\ strategy = "none"
    /\ providerList = <<>>
    /\ config = [maxRounds |-> 0]
    /\ request = [prompt |-> "", context |-> ""]
    /\ pc = "off"
    /\ round = 0
    /\ idx = 0
    /\ roles = <<>>
    /\ responses = <<>>
    /\ messages = <<>>
    /\ settled = <<>>
    /\ inflight = {}
    /\ calls = <<>>
    /\ events = <<>>
    /\ result = NoResult
    /\ error = ""
    /\ nextId = 1
    /\ consumed = ZeroTokens
    /\ completionOrder = <<>>
    /\ agenda \in RosterAgendas
    /\ mpc = "idle"
    /\ mround = 0
    /\ rpos = 0
    /\ turnNumber = 0
    /\ turns = <<>>
    /\ conversationHistory = <<>>
    /\ totalTokens = ZeroTokens
    /\ mcalls = <<>>
    /\ mevents = <<>>
    /\ meetingResult = NoResult
    /\ meetingError = NoError
    /\ registry \in Registries
    /\ assignments = initializeDefaults(registry)
    /\ session = Null
    /\ nextSessionId = 1
    /\ sessionEvents = <<>>
    /\ stopMark = NoMark
    /\ agentTexts = {}
    /\ NoDecisions
    /\ PipelineOff

NextRoster ==
    \/ RunMeeting
    \/ LeaderOpensReturns
    \/ ParticipantReturns
    \/ SummaryReturns
    \/ AssignRole
    \/ Unregister
    \/ Reinitialize

SpecRoster == InitRoster /\ [][NextRoster]_vars

\* getProviderForRole returns the name of a registered agent, for every role
ResolvedIsRegistered ==
    \A role \in CompanyRoles : has(registry, getProviderForRole(role, assignments, registry))

\* C40: whenever at least one agent is registered, the agent name resolved for a role is
\* the name of a currently registered agent, so that no meeting fails because the agent
\* of a role is not found; this holds after every sequence of assignRole, unregister and
\* re-initialisation of the agent set.
C40_ResolvedAgentIsRegistered ==
    /\ Len(registry) > 0 => ResolvedIsRegistered
    /\ (mpc = "failed" /\ Len(registry) > 0) =>
          meetingError.message[4] # "Provider not found in registry"

----------------------------------------------------------------------------
(* The session of the Orchestrator facade, with a meeting running *)

SessionNames == {"shop"}

SessionEvent(type, sessionId) == [type |-> type, sessionId |-> sessionId]

\* runMeeting has been called and has neither returned nor thrown
MeetingInProgress ==
    mpc \in {"leaderOpens", "roundRobin", "leaderReplies", "summarizing", "spinning"}

\* mutant: a session that is still running is kept
startSessionKeepsRunning(name, strat) ==
    /\ session' = IF session # Null THEN session
                  ELSE [id |-> nextSessionId, name |-> name, status |-> "running",
                        strategy |-> strat, team |-> getTeam(assignments),
                        conversations |-> <<>>]
    /\ nextSessionId' = nextSessionId + 1
    /\ sessionEvents' = Append(sessionEvents, SessionEvent("session:started", nextSessionId))

\* Orchestrator.startSession: uuidv4() gives an id never used before
startSession(name, strat) ==
    /\ session' = [id |-> nextSessionId, name |-> name, status |-> "running",
                   strategy |-> strat, team |-> getTeam(assignments),
                   conversations |-> <<>>]
    /\ nextSessionId' = nextSessionId + 1
    /\ sessionEvents' = Append(sessionEvents, SessionEvent("session:started", nextSessionId))

StartSession ==
    /\ nextSessionId <= MaxSessions
    /\ \E name \in SessionNames, strat \in {"collaborative", "sequential"} :
          startSession(name, strat)
    /\ UNCHANGED <<svars, mrun, pvars, stopMark>>

\* mutant: the session is marked stopped but kept
stopSessionKeepsSession ==
    IF session # Null
    THEN /\ sessionEvents' = Append(sessionEvents, SessionEvent("session:stopped", session.id))
         /\ session' = session
    ELSE UNCHANGED <<session, sessionEvents>>

\* Orchestrator.stopSession
stopSession ==
    IF session # Null
    THEN /\ sessionEvents' = Append(sessionEvents, SessionEvent("session:stopped", session.id))
         /\ session' = Null
    ELSE UNCHANGED <<session, sessionEvents>>

\* stopSession from the stopProject command or sidebar message; stopMark remembers the
\* calls and events of the meeting at the first stop of a session made while it runs
StopSession ==
    /\ stopSession
    /\ stopMark' = IF stopMark = NoMark /\ session # Null /\ MeetingInProgress
                   THEN [marked |-> TRUE, calls |-> Len(mcalls), events |-> Len(mevents)]
                   ELSE stopMark
    /\ UNCHANGED <<svars, mrun, pvars, nextSessionId>>

NextSession ==
    \/ StartSession
    \/ StopSession
    \/ RunMeeting
    \/ LeaderOpensReturns
    \/ ParticipantReturns
    \/ LeaderRepliesReturns
    \/ SummaryReturns
    \/ Spin

\* sessions are started and stopped while a meeting of the team runs
SpecSession == InitReassign /\ [][NextSession]_vars

----------------------------------------------------------------------------
(* Two requests of the sidebar: a prompt (Orchestrator.execute) and a meeting *)

\* strategyConfig of Orchestrator.execute
FacadeConfig == [maxRounds |-> 3]

\* the request of the sendPrompt message: the Collaborative strategy, no context
PromptRequest == [prompt |-> "build it", context |-> ""]

\* Orchestrator.execute: refuses to run without providers, else runs the strategy
OrchestratorExecute ==
    IF Len(providerList) = 0
    THEN /\ pc = "idle"
         /\ Throw("No AI providers configured. Add API keys in settings.")
         /\ UNCHANGED <<inputs, mvars, round, idx, roles, responses, messages, settled,
                        calls, events, result, nextId, consumed, completionOrder>>
    ELSE \/ ExecuteCollaborative
         \/ ExecuteSequential
         \/ ExecuteParallel
         \/ ExecuteCompetitive

\* the agendas of the startMeeting message
FacadeAgendas ==
    {[title |-> "kickoff", participants |-> <<>>, leader |-> "ceo", maxTurns |-> 1],
     [title |-> "kickoff", participants |-> <<"ceo", "cto">>, leader |-> "ceo", maxTurns |-> 3]}

\* the configurations the two requests are sent under: no API key, or the one of claude
FacadeRegistries == {<<>>, <<"claude">>}

InitRuns ==
    /\ registry \in FacadeRegistries
    /\ assignments = initializeDefaults(registry)
    /\ strategy = "collaborative"
    /\ providerList = registry
    /\ config = FacadeConfig
    /\ request = PromptRequest
    /\ pc = "idle"
    /\ round = 0
    /\ idx = 0
    /\ roles = <<>>
    /\ responses = <<>>
    /\ messages = <<>>
    /\ settled = <<>>
    /\ inflight = {}
    /\ calls = <<>>
    /\ events = <<>>
    /\ result = NoResult
    /\ error = ""
    /\ nextId = 1
    /\ consumed = ZeroTokens
    /\ completionOrder = <<>>
    /\ agenda \in FacadeAgendas
    /\ mpc = "idle"
    /\ mround = 0
    /\ rpos = 0
    /\ turnNumber = 0
    /\ turns = <<>>
    /\ conversationHistory = <<>>
    /\ totalTokens = ZeroTokens
    /\ mcalls = <<>>
    /\ mevents = <<>>
    /\ meetingResult = NoResult
    /\ meetingError = NoError
    /\ session = Null
    /\ nextSessionId = 1
    /\ sessionEvents = <<>>
    /\ stopMark = NoMark
    /\ agentTexts = {}
    /\ NoDecisions
    /\ PipelineOff

NextRuns ==
    \/ OrchestratorExecute
    \/ CollabArchitectReturns
    \/ CollabDeveloperReturns
    \/ CollabReviewerReturns
    \/ CollabSynthesisReturns
    \/ RunMeeting
    \/ LeaderOpensReturns
    \/ ParticipantReturns
    \/ LeaderRepliesReturns
    \/ SummaryReturns
    \/ Spin

\* the handlers of the two messages run interleaved at their awaits
SpecRuns == InitRuns /\ [][NextRuns]_vars

----------------------------------------------------------------------------
(* execute() with and without agents, while sessions are started and stopped *)

\* the agents registered when execute is called: none, or claude and gemini
ExecuteRegistries == {<<>>, <<"claude", "gemini">>}

InitExecute ==
    /\ registry \in ExecuteRegistries
    /\ assignments = initializeDefaults(registry)
    /\ strategy \in Strategies
    /\ providerList = registry
    /\ config = FacadeConfig
    /\ request = PromptRequest
    /\ pc = "idle"
    /\ round = 0
    /\ idx = 0
    /\ roles = <<>>
    /\ responses = <<>>
    /\ messages = <<>>
    /\ settled = <<>>
    /\ inflight = {}
    /\ calls = <<>>
    /\ events = <<>>
    /\ result = NoResult
    /\ error = ""
    /\ nextId = 1
    /\ consumed = ZeroTokens
    /\ completionOrder = <<>>
    /\ agenda = <<>>
    /\ mpc = "off"
    /\ mround = 0
    /\ rpos = 0
    /\ turnNumber = 0
    /\ turns = <<>>
    /\ conversationHistory = <<>>
    /\ totalTokens = ZeroTokens
    /\ mcalls = <<>>
    /\ mevents = <<>>
    /\ meetingResult = NoResult
    /\ meetingError = NoError
    /\ session = Null
    /\ nextSessionId = 1
    /\ sessionEvents = <<>>
    /\ stopMark = NoMark
    /\ agentTexts = {}
    /\ NoDecisions
    /\ PipelineOff

\* execute is reached through the facade (OrchestratorExecute) or on a strategy object
\* itself (Execute...), with the facade's configuration
NextExecute ==
    \/ StartSession
    \/ StopSession
    \/ OrchestratorExecute
    \/ ExecuteCollaborative
    \/ CollabArchitectReturns
    \/ CollabDeveloperReturns
    \/ CollabReviewerReturns
    \/ CollabSynthesisReturns
    \/ ExecuteSequential
    \/ SeqStepReturns
    \/ ExecuteParallel
    \/ FanOutSettles
    \/ ParallelCollect
    \/ ParallelMergeReturns
    \/ ExecuteCompetitive
    \/ CompetitiveCollect
    \/ CompetitiveJudgeReturns

SpecExecute == InitExecute /\ [][NextExecute]_vars

----------------------------------------------------------------------------
(* The requests of the sidebar while sessions are started and stopped *)

\* the messages of the sidebar that start a run
FrameRequests == {"sendPrompt", "startMeeting", "startProject"}

\* the agenda of the startMeeting message: a kickoff of one turn
FrameAgenda ==
    [title |-> "kickoff", participants |-> <<"ceo", "qa_engineer">>, leader |-> "qa_engineer",
     maxTurns |-> 1]

\* the project of the startProject message, run with meetings of one turn
FrameProject == CHOOSE p \in Projects : p.meetingMaxTurns = 1

InitFrame ==
    /\ registry = <<"claude">>
    /\ assignments = initializeDefaults(registry)
    /\ strategy = "collaborative"
    /\ providerList = registry
    /\ config = FacadeConfig
    /\ request = PromptRequest
    /\ \E kind \in FrameRequests :
          /\ pc = IF kind = "sendPrompt" THEN "idle" ELSE "off"
          /\ mpc = IF kind = "sendPrompt" THEN "off" ELSE "idle"
          /\ ppc = IF kind = "startProject" THEN "idle" ELSE "off"
          /\ project = IF kind = "startProject" THEN FrameProject ELSE NoProject
    /\ round = 0
    /\ idx = 0
    /\ roles = <<>>
    /\ responses = <<>>
    /\ messages = <<>>
    /\ settled = <<>>
    /\ inflight = {}
    /\ calls = <<>>
    /\ events = <<>>
    /\ result = NoResult
    /\ error = ""
    /\ nextId = 1
    /\ consumed = ZeroTokens
    /\ completionOrder = <<>>
    /\ agenda = FrameAgenda
    /\ mround = 0
    /\ rpos = 0
    /\ turnNumber = 0
    /\ turns = <<>>
    /\ conversationHistory = <<>>
    /\ totalTokens = ZeroTokens
    /\ mcalls = <<>>
    /\ mevents = <<>>
    /\ meetingResult = NoResult
    /\ meetingError = NoError
    /\ session = Null
    /\ nextSessionId = 1
    /\ sessionEvents = <<>>
    /\ stopMark = NoMark
    /\ agentTexts = {}
    /\ NoDecisions
    /\ stageIndex = 0
    /\ stageResults = <<>>
    /\ accumulatedContext = <<>>
    /\ pipelineResult = NoResult
    /\ pipelineError = NoError

\* Orchestrator.stopSession from the stopProject command; the mark of the first stop is
\* not kept here
StopProject ==
    /\ stopSession
    /\ UNCHANGED <<svars, mrun, pvars, nextSessionId, stopMark>>

\* one request is handled, with assignRole, startSession and stopSession arriving at any
\* await
NextFrame ==
    \/ StartSession
    \/ StopProject
    \/ AssignRole
    \/ OrchestratorExecute
    \/ CollabArchitectReturns
    \/ CollabDeveloperReturns
    \/ CollabReviewerReturns
    \/ CollabSynthesisReturns
    \/ RunMeeting
    \/ LeaderOpensReturns
    \/ SummaryReturns
    \/ RunProject
    \/ StageMeetingReturns

SpecFrame == InitFrame /\ [][NextFrame]_vars

\* a step of execute, runMeeting, runProject or assignRole
RunStep ==
    \/ OrchestratorExecute
    \/ CollabArchitectReturns
    \/ CollabDeveloperReturns
    \/ CollabReviewerReturns
    \/ CollabSynthesisReturns
    \/ RunMeeting
    \/ LeaderOpensReturns
    \/ SummaryReturns
    \/ RunProject
    \/ StageMeetingReturns
    \/ AssignRole

\* C38: execute, runMeeting, runProject and assignRole never modify the session: from
\* startSession until stopSession or the next startSession, getSession returns a session
\* with the same id, status running, an empty conversations list, no pipeline result and
\* the team captured at start, whether the runs in between succeed or fail.
C38_RunsLeaveSessionAlone ==
    /\ [](session # Null =>
             /\ session.status = "running"
             /\ session.conversations = <<>>
             /\ "pipeline" \notin DOMAIN session
             /\ session.id = sessionEvents[Len(sessionEvents)].sessionId)
    /\ [][StartSession =>
             session'.id = nextSessionId /\ session'.team = getTeam(assignments)]_vars
    /\ [][RunStep => UNCHANGED <<session, nextSessionId, sessionEvents>>]_vars
    /\ [][session' # session => (StartSession \/ StopProject)]_vars

\* the pipeline has failed and a role was reassigned since the session was started: the
\* session still shows the team of its start
C38_Witness ==
    /\ session # Null
    /\ session.id = 1
    /\ ppc = "failed"
    /\ stageIndex = 2
    /\ assignments["qa_engineer"] = "claude"
    /\ session.team # getTeam(assignments)
    /\ session.team = getTeam(initializeDefaults(registry))

----------------------------------------------------------------------------
(* Properties of execute(), checked under SpecExecute *)

\* the errors that report an empty agent set: the facade's, and the strategy's own
NoAgentsErrors ==
    {"No AI providers configured. Add API keys in settings.",
     "No providers available for " \o strategy \o " strategy"}

\* execute has been called and has thrown for want of agents
RefusedForWantOfAgents ==
    /\ pc = "failed"
    /\ error \in NoAgentsErrors
    /\ result = NoResult
    /\ calls = <<>> /\ inflight = {}
    /\ events = <<>>
    /\ messages = <<>> /\ responses = <<>>

\* C25: execute with an empty agent set fails with a no-agents-available error, whatever
\* the strategy, without any agent call issued and without any event emitted, and the
\* step that fails leaves the session (and the session events) as they were.
C25_NoAgentsIsRefused ==
    /\ [](Len(providerList) = 0 /\ pc # "idle" => RefusedForWantOfAgents)
    /\ [][(Len(providerList) = 0 /\ pc = "idle" /\ pc' # "idle") =>
             UNCHANGED <<session, nextSessionId, sessionEvents>>]_vars

C25_Witness ==
    /\ Len(providerList) = 0
    /\ strategy = "competitive"
    /\ pc = "failed"
    /\ error = "No AI providers configured. Add API keys in settings."
    /\ session # Null
    /\ Len(sessionEvents) = 3

----------------------------------------------------------------------------
(* Properties of the meeting, checked under SpecMeeting *)

\* C6: the recorded turns are numbered 1, 2, ..., T without gap or repeat, and T never
\* exceeds agenda.maxTurns.
C6_TurnsContiguousWithinMax ==
    /\ \A k \in DOMAIN turns : turns[k].turnNumber = k
    /\ Len(turns) <= agenda.maxTurns

\* the role of turn k in the pattern: the leader, then rounds of every other participant
\* in agenda order followed by the leader
PatternRole(k, ag) ==
    LET others == otherParticipants(ag)
        j == (k - 2) % (Len(others) + 1)
    IN IF k = 1 \/ j = Len(others) THEN ag.leader ELSE others[j + 1]

\* C7: turn 1 is the leader's, the later turns follow the pattern of the rounds, and no
\* turn is spoken whose number exceeds maxTurns.
C7_LeaderFirstThenRounds ==
    /\ \A k \in DOMAIN turns :
          /\ turns[k].role = PatternRole(k, agenda)
          /\ turns[k].turnNumber <= agenda.maxTurns
    /\ \A c \in DOMAIN mcalls :
          mcalls[c].purpose = "turn" => mcalls[c].turnNumber <= agenda.maxTurns

\* C8: every meeting whose agent calls all return reaches Completed or Failed.
C8_MeetingTerminates == <>(mpc \in {"completed", "failed"})

\* the meeting has failed on a rejected agent call
CallFailed ==
    meetingError.name = "MeetingError" /\ meetingError.message[4] = "AgentCallFailed"

\* the meeting has failed because the agent of a role could not be looked up
LookupFailed ==
    meetingError.name = "MeetingError" /\ meetingError.message[4] # "AgentCallFailed"

\* C15: when an agent call of the meeting fails (a turn or the summary) or the agent of
\* a role cannot be looked up, runMeeting fails with a MeetingError carrying the
\* meeting's id: no MeetingResult, no meeting:completed event, and no call after the
\* failed one (every call before it has its recorded turn).
C15_MeetingFailureIsFatal ==
    /\ mpc = "failed" <=> meetingError.name = "MeetingError"
    /\ meetingError.name = "MeetingError" =>
          /\ meetingError.meetingId = "m1"
          /\ meetingError.message[2] = "m1"
          /\ meetingResult = NoResult
          /\ \A e \in DOMAIN mevents : mevents[e].type # "meeting:completed"
          /\ CallFailed => Len(mcalls) = Len(turns) + 1
          /\ LookupFailed => Len(mcalls) = Len(turns)

C15_Witness ==
    /\ mpc = "failed" /\ CallFailed
    /\ Len(turns) = 2
    /\ Len(mcalls) = 3
    /\ mcalls[3].purpose = "turn"

C15_WitnessLookup ==
    /\ mpc = "failed" /\ LookupFailed
    /\ registry = <<>>
    /\ mcalls = <<>>

\* no role is listed twice among the participants
NoRoleTwice(ag) ==
    \A i, j \in DOMAIN ag.participants : i # j => ag.participants[i] # ag.participants[j]

\* C37: when maxTurns >= 1, the participant list is non-empty without a role listed
\* twice and no agent call fails, a completed meeting has exactly maxTurns turns, whether
\* or not the leader is a participant, and exactly maxTurns + 1 agent calls were issued:
\* the turns, then one summary call to the leader's agent.
C37_FullLengthMeeting ==
    (/\ mpc = "completed"
     /\ agenda.maxTurns >= 1
     /\ Len(agenda.participants) > 0
     /\ NoRoleTwice(agenda)) =>
        /\ Len(meetingResult.turns) = agenda.maxTurns
        /\ Len(mcalls) = agenda.maxTurns + 1
        /\ \A c \in 1..agenda.maxTurns :
              mcalls[c].purpose = "turn" /\ mcalls[c].turnNumber = c
        /\ mcalls[Len(mcalls)].purpose = "summary"
        /\ mcalls[Len(mcalls)].role = agenda.leader
        /\ mcalls[Len(mcalls)].agent =
              getProviderForRole(agenda.leader, assignments, registry)
        /\ Len(mcalls[Len(mcalls)].history) = agenda.maxTurns + 2

\* a completed meeting of four turns whose leader is not among its two participants
C37_Witness ==
    /\ mpc = "completed"
    /\ agenda.maxTurns = 4
    /\ agenda.leader = "ceo"
    /\ agenda.participants = <<"cto", "qa_engineer">>
    /\ Len(meetingResult.turns) = 4
    /\ Len(mcalls) = 5

\* the meeting:turn event of the k-th recorded turn
TurnEvent(k) == Event("meeting:turn", ToString(k), turns[k].role)

\* C33: the events of a successful meeting are, in this order, one meeting:started, one
\* meeting:turn per turn in increasing turn number, then exactly one meeting:completed
\* after the summary call has returned; the meeting:turn event of turn k is published
\* before the agent call of turn k + 1 is issued.  (EventEmitter.fire calls the
\* listeners synchronously, so the streams forwarded by CompanyManager and Orchestrator
\* are this same sequence.)
C33_MeetingEventOrder ==
    /\ mpc = "idle" => mevents = <<>>
    /\ mpc # "idle" =>
          /\ Len(mevents) = 1 + Len(turns) + (IF mpc = "completed" THEN 1 ELSE 0)
          /\ mevents[1] = Event("meeting:started", "", "")
          /\ \A k \in DOMAIN turns : mevents[k + 1] = TurnEvent(k)
          /\ \A c \in DOMAIN mcalls :
                (mcalls[c].purpose = "turn" /\ mcalls[c].turnNumber > 1) =>
                    /\ mcalls[c].turnNumber - 1 \in DOMAIN turns
                    /\ mevents[mcalls[c].turnNumber] = TurnEvent(mcalls[c].turnNumber - 1)
    /\ mpc = "completed" =>
          /\ mevents[Len(mevents)] = Event("meeting:completed", "", "")
          /\ mcalls[Len(mcalls)].purpose = "summary"
          /\ meetingResult.summary # <<>>
          /\ meetingResult.turns = turns

\* a completed meeting of three turns: five events
C33_Witness ==
    /\ mpc = "completed"
    /\ Len(turns) = 3
    /\ Len(mevents) = 5
    /\ mevents[4] = Event("meeting:turn", "3", "ceo")
    /\ mevents[3].provider # "ceo"

----------------------------------------------------------------------------
(* Properties of a meeting with reassignments, checked under SpecReassign *)

\* a step that issues a call sends it to the agent assigned to the role at that moment
CallsTheAssignedAgent ==
    Len(mcalls') > Len(mcalls) =>
        LET call == mcalls'[Len(mcalls')]
        IN assignments[call.role] # NoProvider => call.agent = assignments[call.role]

\* turn k was recorded from the answer of the k-th call and names the agent called
TurnsNameTheCalledAgent ==
    \A k \in DOMAIN turns :
        /\ mcalls[k].purpose = "turn"
        /\ turns[k].role = mcalls[k].role
        /\ turns[k].providerName = mcalls[k].agent

\* C20: every call of a meeting, the summary call included, goes to the agent assigned
\* to its role when the call is issued, so an assignRole between two turns is used from
\* the next call of that role on; each recorded turn names the agent that was called.
C20_AssignmentReadAtCallTime ==
    [][CallsTheAssignedAgent /\ TurnsNameTheCalledAgent']_vars

C20_Witness ==
    /\ mpc = "completed"
    /\ Len(turns) >= 3
    /\ turns[1].role = "ceo" /\ turns[1].providerName = "claude"
    /\ turns[3].role = "ceo" /\ turns[3].providerName = "gemini"
    /\ mcalls[Len(mcalls)].purpose = "summary"
    /\ mcalls[Len(mcalls)].agent = "gemini"
    /\ assignments["ceo"] = "gemini"

----------------------------------------------------------------------------
(* Properties of the session, checked under SpecSession *)

LastSessionEvent == sessionEvents[Len(sessionEvents)]

\* C16: the facade holds at most one session: the one of the most recent startSession
\* when no stopSession followed it, with a fresh id and in status running, and none
\* otherwise; a startSession replaces the session held before.
C16_AtMostOneSession ==
    /\ \A i, j \in DOMAIN sessionEvents :
          (/\ i # j
           /\ sessionEvents[i].type = "session:started"
           /\ sessionEvents[j].type = "session:started")
             => sessionEvents[i].sessionId # sessionEvents[j].sessionId
    /\ IF sessionEvents # <<>> /\ LastSessionEvent.type = "session:started"
       THEN /\ session # Null
            /\ session.id = LastSessionEvent.sessionId
            /\ session.status = "running"
       ELSE session = Null

C16_Witness ==
    /\ Len(sessionEvents) = 2
    /\ sessionEvents[1].type = "session:started"
    /\ sessionEvents[2].type = "session:started"
    /\ session.id = 2 /\ session.status = "running"

\* C17: stopSession can be called in every state, with or without a session and with or
\* without a meeting in progress; after it the facade holds no session; without a
\* session it changes nothing and emits no event.
C17_StopNeverThrows ==
    /\ [](ENABLED StopSession)
    /\ [][StopSession =>
            /\ session' = Null
            /\ session = Null => UNCHANGED <<sessionEvents, session, nextSessionId, mrun, svars>>
            /\ session # Null =>
                  sessionEvents' = Append(sessionEvents,
                                          SessionEvent("session:stopped", session.id))]_vars

C17_Witness ==
    /\ session = Null
    /\ Len(sessionEvents) = 2
    /\ LastSessionEvent.type = "session:stopped"
    /\ stopMark # NoMark
    /\ MeetingInProgress

\* C18: once stopSession has stopped a session while a meeting was in progress, the
\* meeting issues no further agent call, publishes no further event and returns no
\* result.
C18_StopHaltsTheRun ==
    stopMark # NoMark =>
        /\ Len(mcalls) = stopMark.calls
        /\ Len(mevents) = stopMark.events
        /\ meetingResult = NoResult

----------------------------------------------------------------------------
(* Properties of concurrent requests, checked under SpecRuns *)

\* execute has been called and has neither returned nor thrown
StrategyRunInProgress ==
    pc \in {"collab_arch", "collab_dev", "collab_review", "collab_synth"}

\* C19: no two runs started through the facade are in progress at the same time.
C19_OneRunAtATime == ~(StrategyRunInProgress /\ MeetingInProgress)

====
